---- MODULE Spec2Model ----
(***************************************************************************)
(* Model of the tiled task-scheduling engine of SLATE:                     *)
(*   - the gemm driver: the target switch and the broadcast/lookahead      *)
(*     pipeline (internal::specialization::gemm, generic and Devices),     *)
(*   - the internal syrk dispatcher and its four backends,                 *)
(*   - the internal trsmA dispatcher and its backends.                     *)
(* OpenMP tasks are modelled with the semantics of the depend clause: a    *)
(* task waits for every previously generated sibling task whose depend     *)
(* list conflicts with its own.                                            *)
(***************************************************************************)
EXTENDS Integers, Sequences, FiniteSets, TLC

\* Bounds of the model.
MaxNt == 4          \* largest number of block columns A.nt() of a gemm call
MaxLookahead == 4   \* largest value of Option::Lookahead
MaxGrid == 3        \* largest number of block rows/columns C.nt() of a syrk call
MaxDevices == 2     \* largest C.num_devices() of a syrk call
MaxFaultGrid == 2   \* largest C.nt() of a syrk call in which a kernel fails
MaxCallGrid == 2    \* largest grid of a call that is followed from its dispatcher
MaxOptionGrid == 2  \* largest C.nt() of a syrk call with unusual options or operators
MaxTrsmGrid == 2    \* largest number of tiles of B of a trsmA call on several devices
MaxSyrkSize == 7    \* largest C.nt() + 2 * C.num_devices() of a syrk call

VARIABLES
    routine,        \* the routine that is called: "gemm", "syrk" or "trsmA"
    optTarget,      \* gemm: Option::Target of the call
    target,         \* the template parameter target ("none": gemm not yet dispatched)
    A_nt,           \* gemm: A.nt(), the number of panels
    lookahead,      \* gemm: Option::Lookahead
    alpha, beta,    \* gemm: the scalars
    C0,             \* gemm: C on entry
    C,              \* gemm: the current value of C
    pc,             \* gemm: position of the master thread
    k,              \* gemm: loop index of the master thread
    tasks,          \* gemm: the tasks generated so far, in generation order
    status,         \* gemm: status of each generated task
    applied,        \* gemm: <<panel, coefficient>> of each internal::gemm applied to C
    gemmBatch,      \* gemm: panel held by each GemmBatchArrays slot (-1: none)
    workspace,      \* gemm: "none", "reserved", "released"
    originUpdated,  \* gemm: C.tileUpdateAllOrigin() has run
    C_nt,           \* syrk: C.nt() = C.mt(), C being a SymmetricMatrix
    tileOwner,      \* owner of the tiles of each residue class <<i % 2, j % 2>> of the
                    \* output matrix: remote, or local and held on a device
    num_devices,    \* num_devices() of the matrices
    haveMKL,        \* the build defines BLAS_HAVE_MKL
    skipHostNest,   \* the build defines SLATE_HAVE_OMPTARGET or SLATE_SKIP_HOSTNEST
    asserts,        \* the build keeps assert() (NDEBUG is not defined)
    uplo,           \* syrk: C.uplo()
    opC,            \* syrk: C.op()
    opA,            \* syrk, trsmA: A.op()
    is_real,        \* syrk, trsmA: the scalar type is real
    tile_release_strategy,  \* Option::TileReleaseStrategy
    faulty,         \* syrk: the tile of C whose kernel call throws (<<-1, -1>>: none)
    throwing,       \* syrk: the other tiles of C whose kernel call throws
    side,           \* trsmA: Side::Left or Side::Right
    B_mt, B_nt,     \* trsmA: B.mt(), B.nt()
    opB,            \* trsmA: B.op()
    spc,            \* position of the thread that called the dispatcher
    cur,            \* its loop indices
    units,          \* the host compute units (tasks, loop iterations) created so far
    ustate,         \* status of each host unit
    devpc,          \* position of the task of each device ("none": no task)
    updates,        \* per output tile, the kernel updates applied to it, in order
    fetched,        \* the tileGetForReading / tileGetForWriting calls made
    reads,          \* per tile A(r, 0), the number of times it was fetched for reading
    ticks,          \* per tile A(r, 0), the number of A.tileTick(r, 0) calls
    released,       \* the A.tileRelease(r, 0, device) calls made, as <<r, device>>
    exists,         \* trsmA: the <<tile of B, device>> for which B.tileExists holds
    batchCalls,     \* the batched kernel calls issued
    queue,          \* per device, the kernel calls on its compute queue that no
                    \* queue->sync() has waited for yet
    err,            \* the shared error flag of the backend
    invoked,        \* the backend implementations entered, as <<caller, target>>
    raised,         \* the condition the call raised: the line that raised it and the
                    \* text it carries
    result          \* how the call ended; "none": it has not

gemmVars == <<optTarget, target, A_nt, lookahead, alpha, beta, C0, C, pc, k, tasks,
              status, applied, gemmBatch, workspace, originUpdated>>

trsmInputs == <<side, B_mt, B_nt, opB>>

syrkInputs == <<routine, C_nt, tileOwner, num_devices, haveMKL, skipHostNest, asserts,
                uplo, opC, opA, is_real, tile_release_strategy, faulty, throwing,
                trsmInputs>>

\* The tiles: what was fetched, computed, ticked and released.
tileVars == <<updates, fetched, reads, ticks, released, exists, batchCalls, queue>>

\* How the call ends.
endVars == <<err, raised, result>>

syrkVars == <<syrkInputs, spc, cur, units, ustate, devpc, tileVars, endVars>>

vars == <<gemmVars, syrkVars, invoked>>

----------------------------------------------------------------------------
(* gemm: inputs *)

GemmTargets == {"HostTask", "HostNest", "HostBatch", "Devices"}

\* The values of Option::Target.
OptionTargets == {"Host", "HostTask", "HostNest", "HostBatch", "Devices"}

\* switch (target): the instantiation gemm<...> that each case calls
GemmBackendHostNest(opt) ==
    CASE opt = "Host" -> "HostNest"
      [] opt = "HostTask" -> "HostTask"
      [] opt = "HostNest" -> "HostNest"
      [] opt = "HostBatch" -> "HostBatch"
      [] opt = "Devices" -> "Devices"

GemmBackend(opt) ==
    CASE opt = "Host" -> "HostTask"
      [] opt = "HostTask" -> "HostTask"
      [] opt = "HostNest" -> "HostNest"
      [] opt = "HostBatch" -> "HostBatch"
      [] opt = "Devices" -> "Devices"
AlphaValues == {1, 2}
BetaValues == {0, 2}
C0Values == {1}

\* The product A(:, k) B(k, :) of panel k, a known pattern.
PanelProduct(p) == p + 1

\* The dependency tokens bcast[i] and gemm[i].
bcast(i) == <<"bcast", i>>
gemm(i) == <<"gemm", i>>

----------------------------------------------------------------------------
(* gemm: the tasks of each task construct *)

\* #pragma omp task depend(out:bcast[0])
Bcast0Task ==
    [kind |-> "bcast", panel |-> 0, din |-> {}, dout |-> {bcast(0)},
     coef |-> 0, site |-> "bcast0"]

\* loop condition of the lookahead loop
LookaheadCondNoCap(kk) == kk < lookahead + 1

LookaheadCond(kk) == kk < lookahead + 1 /\ kk < A_nt

\* #pragma omp task depend(in:bcast[k-1]) depend(out:bcast[k])
LookaheadBcastTaskAfterGemm(kk) ==
    [kind |-> "bcast", panel |-> kk, din |-> {bcast(kk - 1), gemm(kk - 1)},
     dout |-> {bcast(kk)}, coef |-> 0, site |-> "lookahead"]

LookaheadBcastTask(kk) ==
    [kind |-> "bcast", panel |-> kk, din |-> {bcast(kk - 1)}, dout |-> {bcast(kk)},
     coef |-> 0, site |-> "lookahead"]

\* #pragma omp task depend(in:bcast[0]) depend(out:gemm[0])
Gemm0TaskNoWait ==
    [kind |-> "gemm", panel |-> 0, din |-> {}, dout |-> {gemm(0)},
     coef |-> beta, site |-> "gemm0"]

Gemm0Task ==
    [kind |-> "gemm", panel |-> 0, din |-> {bcast(0)}, dout |-> {gemm(0)},
     coef |-> beta, site |-> "gemm0"]

\* if (k+lookahead < A.nt())
MainBcastCondShort(kk) == kk + lookahead + 1 < A_nt

MainBcastCond(kk) == kk + lookahead < A_nt

\* #pragma omp task depend(in:gemm[k-1]) depend(in:bcast[k+lookahead-1])
\*                  depend(out:bcast[k+lookahead])
MainBcastTaskNoGemm(kk) ==
    [kind |-> "bcast", panel |-> kk + lookahead,
     din |-> {bcast(kk + lookahead - 1)},
     dout |-> {bcast(kk + lookahead)}, coef |-> 0, site |-> "main"]

MainBcastTaskNoBcast(kk) ==
    [kind |-> "bcast", panel |-> kk + lookahead,
     din |-> {gemm(kk - 1)},
     dout |-> {bcast(kk + lookahead)}, coef |-> 0, site |-> "main"]

MainBcastTaskAfterLast(kk) ==
    [kind |-> "bcast", panel |-> kk + lookahead,
     din |-> {gemm(kk + lookahead - 1), bcast(kk + lookahead - 1)},
     dout |-> {bcast(kk + lookahead)}, coef |-> 0, site |-> "main"]

MainBcastTask(kk) ==
    [kind |-> "bcast", panel |-> kk + lookahead,
     din |-> {gemm(kk - 1), bcast(kk + lookahead - 1)},
     dout |-> {bcast(kk + lookahead)}, coef |-> 0, site |-> "main"]

\* #pragma omp task depend(in:bcast[k]) depend(in:gemm[k-1]) depend(out:gemm[k])
MainGemmTaskNoGemm(kk) ==
    [kind |-> "gemm", panel |-> kk, din |-> {bcast(kk)},
     dout |-> {gemm(kk)}, coef |-> 1, site |-> "main"]

MainGemmTaskBeta(kk) ==
    [kind |-> "gemm", panel |-> kk, din |-> {bcast(kk), gemm(kk - 1)},
     dout |-> {gemm(kk)}, coef |-> beta, site |-> "main"]

MainGemmTask(kk) ==
    [kind |-> "gemm", panel |-> kk, din |-> {bcast(kk), gemm(kk - 1)},
     dout |-> {gemm(kk)}, coef |-> 1, site |-> "main"]

----------------------------------------------------------------------------
(* gemm: OpenMP task dependences *)

\* Task t depends on the previously generated sibling s when s has an out
\* dependence on a list item of t, or t has an out dependence on an in item of s.
DependsOn(t, s) ==
    \/ s.dout \cap (t.din \cup t.dout) # {}
    \/ s.din \cap t.dout # {}

\* Task number i may start: every task it depends on has completed.
Ready(i) ==
    /\ status[i] = "created"
    /\ \A j \in 1..(i - 1) : DependsOn(tasks[i], tasks[j]) => status[j] = "done"

\* #pragma omp taskwait
TaskwaitNoWait == TRUE

Taskwait == \A i \in 1..Len(tasks) : status[i] = "done"

Generate(t) ==
    /\ tasks' = Append(tasks, t)
    /\ status' = Append(status, "created")

\* The inputs of syrk and trsmA while another routine is modelled.
NoSyrkInputs ==
    /\ C_nt = 1
    /\ uplo = "Lower"
    /\ opC = "NoTrans"
    /\ faulty = <<-1, -1>>
    /\ throwing = {}

NoTrsmInputs ==
    /\ side = "Left"
    /\ B_mt = 1
    /\ B_nt = 1
    /\ opB = "NoTrans"

\* The state of an internal routine before its dispatcher is called.
CallNotStarted ==
    /\ cur = <<0, 0>>
    /\ units = <<>>
    /\ ustate = <<>>
    /\ devpc = [d \in 0..(num_devices - 1) |-> "none"]
    /\ fetched = {}
    /\ released = {}
    /\ batchCalls = {}
    /\ queue = [d \in 0..(num_devices - 1) |-> {}]
    /\ err = 0
    /\ raised = [line |-> 0, what |-> 0]
    /\ result = "none"

\* The state of the syrk and trsmA variables while a gemm call is modelled.
SyrkIdle ==
    /\ NoSyrkInputs
    /\ NoTrsmInputs
    /\ tileOwner = [c \in {0, 1} \X {0, 1} |-> [local |-> FALSE, device |-> 0]]
    /\ haveMKL = TRUE
    /\ skipHostNest = FALSE
    /\ asserts = TRUE
    /\ opA = "NoTrans"
    /\ is_real = TRUE
    /\ tile_release_strategy = "All"
    /\ spc = "idle"
    /\ updates = [t \in {<<0, 0>>} |-> <<>>]
    /\ reads = [r \in {0} |-> 0]
    /\ ticks = [r \in {0} |-> 0]
    /\ exists = {}
    /\ CallNotStarted

----------------------------------------------------------------------------
(* gemm: the master thread *)

\* A call of gemm with the lookahead and the target its options give.
GemmCall ==
    /\ routine = "gemm"
    /\ optTarget \in OptionTargets
    /\ target = "none"
    /\ alpha \in AlphaValues
    /\ beta \in BetaValues
    /\ C0 \in C0Values
    /\ C = C0
    /\ pc = "dispatch"
    /\ k = 0
    /\ tasks = <<>>
    /\ status = <<>>
    /\ applied = <<>>
    /\ gemmBatch = [s \in 0..lookahead |-> -1]
    /\ workspace = "none"
    /\ originUpdated = FALSE
    /\ invoked = <<>>
    /\ SyrkIdle

InitGemm ==
    /\ A_nt \in 1..MaxNt
    /\ lookahead \in 0..MaxLookahead
    /\ num_devices = 1
    /\ GemmCall

\* gemm(alpha, A, B, beta, C, opts): the switch on Option::Target calls
\* gemm<target>, which reads Option::Lookahead and calls the specialization.
GemmDispatch ==
    /\ pc = "dispatch"
    /\ target' = GemmBackend(optTarget)
    /\ invoked' = Append(invoked, <<"gemm", GemmBackend(optTarget)>>)
    /\ pc' = "begin"
    /\ UNCHANGED <<optTarget, A_nt, lookahead, alpha, beta, C0, C, k, tasks, status,
                   applied, gemmBatch, workspace, originUpdated>>
    /\ UNCHANGED syrkVars

\* Entry of the master region; the Devices overload reserves the workspace.
MasterBegin ==
    /\ pc = "begin"
    /\ workspace' = IF target = "Devices" THEN "reserved" ELSE workspace
    /\ pc' = "bcast0"
    /\ UNCHANGED <<optTarget, target, A_nt, lookahead, alpha, beta, C0, C, k, tasks, status,
                   applied, gemmBatch, originUpdated>>
    /\ UNCHANGED <<syrkVars, invoked>>

\* send first block col of A and block row of B
MasterBcast0 ==
    /\ pc = "bcast0"
    /\ Generate(Bcast0Task)
    /\ pc' = "lookahead"
    /\ k' = 1
    /\ UNCHANGED <<optTarget, target, A_nt, lookahead, alpha, beta, C0, C, applied,
                   gemmBatch, workspace, originUpdated>>
    /\ UNCHANGED <<syrkVars, invoked>>

\* send next lookahead block cols of A and block rows of B
MasterLookahead ==
    /\ pc = "lookahead"
    /\ IF LookaheadCond(k)
       THEN /\ Generate(LookaheadBcastTask(k))
            /\ k' = k + 1
            /\ pc' = pc
       ELSE /\ pc' = "gemm0"
            /\ UNCHANGED <<tasks, status, k>>
    /\ UNCHANGED <<optTarget, target, A_nt, lookahead, alpha, beta, C0, C, applied,
                   gemmBatch, workspace, originUpdated>>
    /\ UNCHANGED <<syrkVars, invoked>>

\* multiply alpha A(:, 0) B(0, :) + beta C, then enter the main loop
MasterGemm0 ==
    /\ pc = "gemm0"
    /\ Generate(Gemm0Task)
    /\ k' = 1
    /\ pc' = IF 1 < A_nt THEN "main_bcast" ELSE "taskwait"
    /\ UNCHANGED <<optTarget, target, A_nt, lookahead, alpha, beta, C0, C, applied,
                   gemmBatch, workspace, originUpdated>>
    /\ UNCHANGED <<syrkVars, invoked>>

\* main loop, first half: send next block col of A and block row of B
MasterMainBcast ==
    /\ pc = "main_bcast"
    /\ IF MainBcastCond(k)
       THEN Generate(MainBcastTask(k))
       ELSE UNCHANGED <<tasks, status>>
    /\ pc' = "main_gemm"
    /\ UNCHANGED <<optTarget, target, A_nt, lookahead, alpha, beta, C0, C, k, applied,
                   gemmBatch, workspace, originUpdated>>
    /\ UNCHANGED <<syrkVars, invoked>>

\* main loop, second half: multiply alpha A(:, k) B(k, :) + C, no beta
MasterMainGemm ==
    /\ pc = "main_gemm"
    /\ Generate(MainGemmTask(k))
    /\ k' = k + 1
    /\ pc' = IF k + 1 < A_nt THEN "main_bcast" ELSE "taskwait"
    /\ UNCHANGED <<optTarget, target, A_nt, lookahead, alpha, beta, C0, C, applied,
                   gemmBatch, workspace, originUpdated>>
    /\ UNCHANGED <<syrkVars, invoked>>

\* #pragma omp taskwait
MasterTaskwait ==
    /\ pc = "taskwait"
    /\ Taskwait
    /\ pc' = "updateOrigin"
    /\ UNCHANGED <<optTarget, target, A_nt, lookahead, alpha, beta, C0, C, k, tasks, status,
                   applied, gemmBatch, workspace, originUpdated>>
    /\ UNCHANGED <<syrkVars, invoked>>

\* C.tileUpdateAllOrigin()
TileUpdateAllOrigin ==
    /\ pc = "updateOrigin"
    /\ originUpdated' = TRUE
    /\ pc' = "release"
    /\ UNCHANGED <<optTarget, target, A_nt, lookahead, alpha, beta, C0, C, k, tasks, status,
                   applied, gemmBatch, workspace>>
    /\ UNCHANGED <<syrkVars, invoked>>

\* End of the parallel region (its barrier completes every task), then
\* C.releaseWorkspace()
ReleaseWorkspace ==
    /\ pc = "release"
    /\ Taskwait
    /\ workspace' = "released"
    /\ pc' = "done"
    /\ UNCHANGED <<optTarget, target, A_nt, lookahead, alpha, beta, C0, C, k, tasks, status,
                   applied, gemmBatch, originUpdated>>
    /\ UNCHANGED <<syrkVars, invoked>>

----------------------------------------------------------------------------
(* gemm: the tasks *)

\* A thread of the team starts a task whose dependences are satisfied.
StartTask(i) ==
    /\ i \in 1..Len(tasks)
    /\ Ready(i)
    /\ status' = [status EXCEPT ![i] = "running"]
    /\ UNCHANGED <<optTarget, target, A_nt, lookahead, alpha, beta, C0, C, pc, k, tasks,
                   applied, gemmBatch, workspace, originUpdated>>
    /\ UNCHANGED <<syrkVars, invoked>>

\* The slot of gemmBatch that holds the arguments of a panel.
SlotOfPanelZero(p) == 0

SlotOf(p) == p % (lookahead + 1)

\* Devices: after its two broadcasts the task of a panel calls
\* internal::gemmPrep, which fills gemmBatch[panel % (lookahead+1)].
GemmPrep(i) ==
    /\ i \in 1..Len(tasks)
    /\ target = "Devices"
    /\ status[i] = "running"
    /\ tasks[i].kind = "bcast"
    /\ status' = [status EXCEPT ![i] = "prep"]
    /\ gemmBatch' = [gemmBatch EXCEPT ![SlotOf(tasks[i].panel)] = tasks[i].panel]
    /\ UNCHANGED <<optTarget, target, A_nt, lookahead, alpha, beta, C0, C, pc, k, tasks,
                   applied, workspace, originUpdated>>
    /\ UNCHANGED <<syrkVars, invoked>>

\* The broadcast task of a panel completes: after the broadcasts on the host
\* targets, after gemmPrep on Devices.
FinishBcast(i) ==
    /\ i \in 1..Len(tasks)
    /\ status[i] = (IF target = "Devices" THEN "prep" ELSE "running")
    /\ tasks[i].kind = "bcast"
    /\ status' = [status EXCEPT ![i] = "done"]
    /\ UNCHANGED <<optTarget, target, A_nt, lookahead, alpha, beta, C0, C, pc, k, tasks,
                   applied, gemmBatch, workspace, originUpdated>>
    /\ UNCHANGED <<syrkVars, invoked>>

\* internal::gemm (gemmExec on Devices) of a panel completes:
\* C = alpha A(:, panel) B(panel, :) + coef C.
FinishGemm(i) ==
    /\ i \in 1..Len(tasks)
    /\ status[i] = "running"
    /\ tasks[i].kind = "gemm"
    /\ status' = [status EXCEPT ![i] = "done"]
    /\ C' = alpha * PanelProduct(tasks[i].panel) + tasks[i].coef * C
    /\ applied' = Append(applied, <<tasks[i].panel, tasks[i].coef>>)
    /\ UNCHANGED <<optTarget, target, A_nt, lookahead, alpha, beta, C0, pc, k, tasks,
                   gemmBatch, workspace, originUpdated>>
    /\ UNCHANGED <<syrkVars, invoked>>

MaxTasks == 2 * MaxNt

Master ==
    \/ GemmDispatch
    \/ MasterBegin
    \/ MasterBcast0
    \/ MasterLookahead
    \/ MasterGemm0
    \/ MasterMainBcast
    \/ MasterMainGemm
    \/ MasterTaskwait
    \/ TileUpdateAllOrigin
    \/ ReleaseWorkspace

NextGemm ==
    \/ Master
    \/ \E i \in 1..MaxTasks : StartTask(i)
    \/ \E i \in 1..MaxTasks : GemmPrep(i)
    \/ \E i \in 1..MaxTasks : FinishBcast(i)
    \/ \E i \in 1..MaxTasks : FinishGemm(i)

SpecGemm == InitGemm /\ [][NextGemm]_vars

\* Every ready task is eventually run by some thread of the team, every task
\* body terminates, and the master thread keeps going.
FairGemm ==
    /\ WF_vars(Master)
    /\ \A i \in 1..MaxTasks : WF_vars(StartTask(i))
    /\ \A i \in 1..MaxTasks : WF_vars(GemmPrep(i))
    /\ \A i \in 1..MaxTasks : WF_vars(FinishBcast(i))
    /\ \A i \in 1..MaxTasks : WF_vars(FinishGemm(i))

SpecGemmFair == SpecGemm /\ FairGemm

----------------------------------------------------------------------------
(* syrk: the matrices *)

SyrkTargets == {"HostTask", "HostNest", "HostBatch", "Devices"}

Ops == {"NoTrans", "Trans", "ConjTrans"}

\* No tile: the value of faulty when every kernel call succeeds.
NoTile == <<-1, -1>>

\* C is a SymmetricMatrix: as many block rows as block columns.
C_mt == C_nt

\* Ownership is any map that repeats with period 2 in both directions, as
\* that of a 2D block-cyclic distribution: each residue class of tiles is
\* remote, or held by this process on one of its devices.
tileIsLocal(i, j) == tileOwner[<<i % 2, j % 2>>].local

tileDevice(i, j) == tileOwner[<<i % 2, j % 2>>].device

Owners(ndev) ==
    {[local |-> FALSE, device |-> 0]} \cup
    {[local |-> TRUE, device |-> d] : d \in 0..(ndev - 1)}

\* The state of the gemm variables while a syrk or trsmA call is modelled.
GemmIdle ==
    /\ optTarget = "HostTask"
    /\ A_nt = 0
    /\ lookahead = 0
    /\ alpha = 1
    /\ beta = 0
    /\ C0 = 0
    /\ C = 0
    /\ pc = "idle"
    /\ k = 0
    /\ tasks = <<>>
    /\ status = <<>>
    /\ applied = <<>>
    /\ gemmBatch = [s \in {0} |-> -1]
    /\ workspace = "none"
    /\ originUpdated = FALSE

\* A call of internal::syrk<target> on a C of C_nt by C_nt tiles.
SyrkCall ==
    /\ routine = "syrk"
    /\ spc = "dispatch"
    /\ updates = [t \in (0..(C_mt - 1)) \X (0..(C_nt - 1)) |-> <<>>]
    /\ reads = [r \in 0..(C_mt - 1) |-> 0]
    /\ ticks = [r \in 0..(C_mt - 1) |-> 0]
    /\ exists = {}
    /\ invoked = <<>>
    /\ CallNotStarted
    /\ NoTrsmInputs
    /\ GemmIdle

\* The builds: HostBatch with or without MKL, HostNest skipped or not.
SyrkBuild ==
    /\ haveMKL \in (IF target = "HostBatch" THEN BOOLEAN ELSE {TRUE})
    /\ skipHostNest \in (IF target = "HostNest" THEN BOOLEAN ELSE {FALSE})

\* The calls the callers of internal::syrk make: C Lower and NoTrans, the
\* default tile release strategy, matrices with at least one device.
SyrkUsualCall ==
    /\ target \in SyrkTargets
    /\ uplo = "Lower"
    /\ opC = "NoTrans"
    /\ opA = "NoTrans"
    /\ is_real = TRUE
    /\ asserts = TRUE
    /\ tile_release_strategy = "All"
    /\ num_devices \in (IF target = "Devices" THEN 1..MaxDevices ELSE {1})
    /\ tileOwner \in [{0, 1} \X {0, 1} -> Owners(num_devices)]
    /\ SyrkBuild
    /\ SyrkCall

\* Usual calls in which every kernel call succeeds.
InitSyrk ==
    /\ C_nt \in 1..MaxGrid
    /\ faulty = NoTile
    /\ throwing = {}
    /\ SyrkUsualCall
    /\ C_nt + 2 * num_devices <= MaxSyrkSize

\* Usual calls in which the kernel call on at most one local tile of the
\* lower triangle throws (a blas::Error or a slate::Exception, e.g. for a
\* malformed shape). cblas_gemm_batch, a C interface, throws nothing: on
\* HostBatch only the kernel of a diagonal tile can.
InitSyrkFault ==
    /\ C_nt \in 1..MaxFaultGrid
    /\ SyrkUsualCall
    /\ faulty \in {NoTile} \cup {t \in (0..(C_mt - 1)) \X (0..(C_nt - 1)) :
                      /\ t[1] >= t[2]
                      /\ tileIsLocal(t[1], t[2])
                      /\ target = "HostBatch" => t[1] = t[2]}
    /\ throwing = {}

\* The tiles a kernel can throw on: the local tiles of the lower triangle, on
\* HostBatch the diagonal ones.
CanThrow ==
    {t \in (0..(C_mt - 1)) \X (0..(C_nt - 1)) :
        /\ t[1] >= t[2]
        /\ tileIsLocal(t[1], t[2])
        /\ target = "HostBatch" => t[1] = t[2]}

\* Usual calls in which the kernel calls on any number of local tiles throw.
InitSyrkFaults ==
    /\ C_nt \in 1..MaxFaultGrid
    /\ SyrkUsualCall
    /\ faulty = NoTile
    /\ throwing \in SUBSET CanThrow

\* The kernel call on the tile t of C throws.
Throws(t) == t = faulty \/ t \in throwing

\* The values of Option::TileReleaseStrategy.
ReleaseStrategies == {"None", "Internal", "Slate", "All"}

\* The calls the dispatcher accepts that differ from the usual ones either by
\* the tile release strategy or by the operators of C and A and the scalar
\* type; the matrices have one device and every kernel call succeeds.
InitSyrkOpts ==
    /\ target \in SyrkTargets
    /\ C_nt \in 1..MaxOptionGrid
    /\ uplo = "Lower"
    /\ tile_release_strategy \in ReleaseStrategies
    /\ opC \in (IF tile_release_strategy = "All" THEN Ops ELSE {"NoTrans"})
    /\ opA \in (IF tile_release_strategy = "All" THEN Ops ELSE {"NoTrans"})
    /\ is_real \in (IF tile_release_strategy = "All" THEN BOOLEAN ELSE {TRUE})
    /\ is_real \/ (opC # "ConjTrans" /\ opA # "ConjTrans")
    /\ asserts = TRUE
    /\ num_devices = 1
    /\ tileOwner \in [{0, 1} \X {0, 1} -> Owners(num_devices)]
    /\ faulty = NoTile
    /\ throwing = {}
    /\ SyrkBuild
    /\ SyrkCall

\* bool call_tile_tick
call_tile_tick == tile_release_strategy \in {"Internal", "All"}

----------------------------------------------------------------------------
(* syrk: the dispatcher *)

\* C is Lower, and in the complex case neither C nor A is ConjTrans.
SyrkValidNoOpA ==
    /\ uplo = "Lower"
    /\ (is_real \/ opC # "ConjTrans")

SyrkValid ==
    /\ uplo = "Lower"
    /\ (is_real \/ (opC # "ConjTrans" /\ opA # "ConjTrans"))

\* syrk<target>: throw std::exception() unless the call is valid, else call
\* the implementation of the target.
SyrkDispatch ==
    /\ routine = "syrk"
    /\ spc = "dispatch"
    /\ IF SyrkValid
       THEN /\ invoked' = Append(invoked, <<"syrk", target>>)
            /\ spc' = "entry"
            /\ UNCHANGED endVars
       ELSE /\ result' = "exception"
            /\ raised' = [line |-> 33, what |-> 0]
            /\ spc' = "done"
            /\ UNCHANGED <<invoked, err>>
    /\ UNCHANGED <<gemmVars, syrkInputs, cur, units, ustate, devpc, tileVars>>

----------------------------------------------------------------------------
(* syrk: tile accesses and kernels *)

\* A.tileGetForReading(i, 0, [device]) and C.tileGetForWriting(i, j, [device])
GetForReading(tiles, loc) ==
    {[mat |-> "A", tile |-> t, mode |-> "read", loc |-> loc] : t \in tiles}

GetForWritingNothing(tiles, loc) == {}

GetForWriting(tiles, loc) ==
    {[mat |-> "C", tile |-> t, mode |-> "write", loc |-> loc] : t \in tiles}

\* One call per element of rows: A.tileGetForReading(r, 0) or A.tileTick(r, 0).
RECURSIVE CountCalls(_, _)
CountCalls(count, rows) ==
    IF rows = <<>> THEN count
    ELSE CountCalls([count EXCEPT ![Head(rows)] = @ + 1], Tail(rows))

\* The number of calls on A(r, 0) of a loop over tiles that makes one call on
\* A(i, 0) and one on A(j, 0) for each tile C(i, j).
Uses(tiles, r) ==
    Cardinality({t \in tiles : t[1] = r}) + Cardinality({t \in tiles : t[2] = r})

\* One kernel update of a tile of C: the kernel and the tiles of A it reads.
Update(kind, ins) == [kind |-> kind, ins |-> ins]

\* The input tiles of one entry of a batch.
EntryIns(kind, e) == IF kind = "gemm" THEN {e.a, e.b} ELSE {e.a}

RECURSIVE AppendEntries(_, _, _)
AppendEntries(seq, kind, es) ==
    IF es = {} THEN seq
    ELSE LET e == CHOOSE x \in es : TRUE
         IN AppendEntries(Append(seq, Update(kind, EntryIns(kind, e))), kind, es \ {e})

\* A batched kernel call updates the tile c of each of its entries.
ApplyBatch(upd, kind, entries) ==
    [t \in DOMAIN upd |-> AppendEntries(upd[t], kind, {e \in entries : e.c = t})]

\* if op(C) is not NoTrans, invert opA if possible: the opA the batched
\* kernels are given, or "throw" for throw std::exception()
ResolveOpA ==
    IF opC # "NoTrans"
    THEN IF opA = "NoTrans" THEN opC
         ELSE IF opA = opC \/ is_real THEN "NoTrans"
         ELSE "throw"
    ELSE opA

\* Op opB = (opA == Op::NoTrans ? Op::Trans : Op::NoTrans)
OppositeOp(op) == IF op = "NoTrans" THEN "Trans" ELSE "NoTrans"

\* if (C.op() != Op::NoTrans): swap A <=> B; swap m <=> n
SwapArgsKeepOps(g) ==
    [opA |-> g.opA, opB |-> g.opB, a |-> g.b, b |-> g.a,
     lda |-> g.ldb, ldb |-> g.lda, m |-> g.n, n |-> g.m]

SwapArgs(g) ==
    [opA |-> g.opB, opB |-> g.opA, a |-> g.b, b |-> g.a,
     lda |-> g.ldb, ldb |-> g.lda, m |-> g.n, n |-> g.m]

\* What a batched gemm is given for the tile C(i, j): the operators, the
\* tiles whose data go in a_array and b_array, the tiles whose strides go in
\* lda and ldb, and the dimensions of C(i, j) that go in m and n.
BatchGemmArgs ==
    LET g == [opA |-> ResolveOpA, opB |-> OppositeOp(ResolveOpA),
              a |-> "Ai0", b |-> "Aj0", lda |-> "Ai0", ldb |-> "Aj0",
              m |-> "mb", n |-> "nb"]
    IN IF opC # "NoTrans" THEN SwapArgs(g) ELSE g

\* What a batched syrk of Devices is given for the tile C(j, j): opA_ is set
\* after the swap of opA and opB.
BatchSyrkArgs ==
    [opA |-> BatchGemmArgs.opA, opB |-> "none", a |-> "Aj0", b |-> "none",
     lda |-> "Aj0", ldb |-> "none", m |-> "nb", n |-> "nb"]

\* What a batched trsm of trsmA is given for a tile of B: op(A) is resolved
\* against op(B), and mb and nb are swapped if op(B) is not NoTrans.
BatchTrsmArgs ==
    [opA |-> IF opB = "NoTrans" THEN opA
             ELSE IF opA = "NoTrans" THEN opB ELSE "NoTrans",
     opB |-> "none", a |-> "A00", b |-> "B", lda |-> "A00", ldb |-> "B",
     m |-> IF opB = "NoTrans" THEN "mb" ELSE "nb",
     n |-> IF opB = "NoTrans" THEN "nb" ELSE "mb"]

BatchArgs(kind) ==
    CASE kind = "gemm" -> BatchGemmArgs
      [] kind = "syrk" -> BatchSyrkArgs
      [] kind = "trsm" -> BatchTrsmArgs

CreateUnit(u) ==
    /\ units' = Append(units, u)
    /\ ustate' = Append(ustate, "created")

\* End of a taskgroup or of a parallel loop: every unit has ended, its
\* kernel done or its exception caught.
UnitsJoinedNoWait == TRUE

UnitsJoined == \A n \in 1..Len(units) : ustate[n] \in {"done", "failed"}

\* A host unit starts: it fetches its inputs for reading, its output for writing.
StartUnit(n) ==
    /\ routine = "syrk"
    /\ n \in 1..Len(units)
    /\ ustate[n] = "created"
    /\ ustate' = [ustate EXCEPT ![n] = "running"]
    /\ fetched' = fetched \cup GetForReading(units[n].ins, "host")
                          \cup GetForWriting({units[n].out}, "host")
    /\ reads' = CountCalls(reads, units[n].reads)
    /\ UNCHANGED <<gemmVars, syrkInputs, spc, cur, units, devpc, updates, ticks,
                   released, exists, batchCalls, queue, endVars, invoked>>

\* A host unit ends. Either tile::syrk or tile::gemm has updated its output
\* tile and the unit ticks its inputs, or the kernel has thrown and the
\* catch clause of the unit sets err = __LINE__.
FinishUnit(n) ==
    /\ routine = "syrk"
    /\ n \in 1..Len(units)
    /\ ustate[n] = "running"
    /\ IF Throws(units[n].out)
       THEN /\ ustate' = [ustate EXCEPT ![n] = "failed"]
            /\ err' = units[n].catch
            /\ UNCHANGED <<updates, ticks>>
       ELSE /\ ustate' = [ustate EXCEPT ![n] = "done"]
            /\ updates' = [updates EXCEPT ![units[n].out] =
                               Append(@, Update(units[n].kind, units[n].ins))]
            /\ ticks' = CountCalls(ticks, units[n].ticks)
            /\ err' = err
    /\ UNCHANGED <<gemmVars, syrkInputs, spc, cur, units, devpc, fetched, reads,
                   released, exists, batchCalls, queue, raised, result, invoked>>

\* The condition raised after the join: throw std::exception() on the host
\* targets, slate_error(std::to_string(err)) on Devices.
ThrowLine(t) ==
    CASE t = "HostTask" -> 126
      [] t = "HostNest" -> 210
      [] t = "HostBatch" -> 371
      [] t = "Devices" -> 730

RaisedAfterJoin(t, e) ==
    [line |-> ThrowLine(t), what |-> IF t = "Devices" THEN e ELSE 0]

\* if (err)
SyrkFailedNever == FALSE

SyrkFailed == err # 0

\* if (err) throw; else return
SyrkReturn ==
    /\ spc = "return"
    /\ spc' = "done"
    /\ IF SyrkFailed
       THEN /\ result' = IF target = "Devices" THEN "slate_error" ELSE "exception"
            /\ raised' = RaisedAfterJoin(target, err)
       ELSE /\ result' = "ok"
            /\ raised' = raised
    /\ UNCHANGED <<gemmVars, syrkInputs, cur, units, ustate, devpc, tileVars, err,
                   invoked>>

----------------------------------------------------------------------------
(* syrk: Target::HostTask *)

\* The task the loop body creates for the local tile C(i, j): what it
\* fetches, its kernel, what it ticks, the line of its catch clause.
HostTaskUnitAllGemm(i, j) ==
    [kind |-> "gemm", out |-> <<i, j>>, ins |-> {<<i, 0>>, <<j, 0>>},
     reads |-> <<i, j>>,
     ticks |-> IF call_tile_tick THEN <<i, j>> ELSE <<>>,
     catch |-> 117]

HostTaskUnit(i, j) ==
    IF i = j
    THEN [kind |-> "syrk", out |-> <<j, j>>, ins |-> {<<j, 0>>},
          reads |-> <<j>>,
          ticks |-> IF call_tile_tick THEN <<j, j>> ELSE <<>>,
          catch |-> 92]
    ELSE [kind |-> "gemm", out |-> <<i, j>>, ins |-> {<<i, 0>>, <<j, 0>>},
          reads |-> <<i, j>>,
          ticks |-> IF call_tile_tick THEN <<i, j>> ELSE <<>>,
          catch |-> 117]

HostTaskEntry ==
    /\ routine = "syrk"
    /\ spc = "entry"
    /\ target = "HostTask"
    /\ spc' = "ht_loop"
    /\ cur' = <<0, 0>>
    /\ UNCHANGED <<gemmVars, syrkInputs, units, ustate, devpc, tileVars, endVars,
                   invoked>>

\* for j in 0..nt-1, for i in j..mt-1 (lower): one task per local tile
HostTaskIter ==
    /\ spc = "ht_loop"
    /\ LET j == cur[1]
           i == cur[2]
       IN /\ IF tileIsLocal(i, j)
             THEN CreateUnit(HostTaskUnit(i, j))
             ELSE UNCHANGED <<units, ustate>>
          /\ IF i + 1 < C_mt
             THEN cur' = <<j, i + 1>> /\ spc' = spc
             ELSE IF j + 1 < C_nt
                  THEN cur' = <<j + 1, j + 1>> /\ spc' = spc
                  ELSE cur' = cur /\ spc' = "ht_join"
    /\ UNCHANGED <<gemmVars, syrkInputs, devpc, tileVars, endVars, invoked>>

\* end of the taskgroup
HostTaskJoin ==
    /\ spc = "ht_join"
    /\ UnitsJoined
    /\ spc' = "return"
    /\ UNCHANGED <<gemmVars, syrkInputs, cur, units, ustate, devpc, tileVars,
                   endVars, invoked>>

----------------------------------------------------------------------------
(* syrk: Target::HostNest *)

\* slate_not_implemented under SLATE_HAVE_OMPTARGET or SLATE_SKIP_HOSTNEST
HostNestAvailableAlways == TRUE

HostNestAvailable == ~skipHostNest

HostNestEntry ==
    /\ routine = "syrk"
    /\ spc = "entry"
    /\ target = "HostNest"
    /\ IF HostNestAvailable
       THEN /\ spc' = "hn_diag"
            /\ UNCHANGED <<result, raised>>
       ELSE /\ spc' = "done"
            /\ result' = "NotSupported"
            /\ raised' = [line |-> 144, what |-> 0]
    /\ cur' = <<0, 0>>
    /\ UNCHANGED <<gemmVars, syrkInputs, units, ustate, devpc, tileVars, err,
                   invoked>>

\* The task created for the local diagonal tile C(j, j).
HostNestDiagUnit(j) ==
    [kind |-> "syrk", out |-> <<j, j>>, ins |-> {<<j, 0>>},
     reads |-> <<j>>, ticks |-> <<j, j>>, catch |-> 173]

\* for j in 0..nt-1: one task per local diagonal tile
HostNestDiagIter ==
    /\ spc = "hn_diag"
    /\ LET j == cur[1]
       IN /\ IF tileIsLocal(j, j)
             THEN CreateUnit(HostNestDiagUnit(j))
             ELSE UNCHANGED <<units, ustate>>
          /\ IF j + 1 < C_nt
             THEN cur' = <<j + 1, 0>> /\ spc' = spc
             ELSE cur' = cur /\ spc' = "hn_diag_join"
    /\ UNCHANGED <<gemmVars, syrkInputs, devpc, tileVars, endVars, invoked>>

\* end of the taskgroup of the diagonal tasks
HostNestDiagJoin ==
    /\ spc = "hn_diag_join"
    /\ UnitsJoined
    /\ spc' = "hn_for"
    /\ cur' = <<0, 0>>
    /\ UNCHANGED <<gemmVars, syrkInputs, units, ustate, devpc, tileVars, endVars,
                   invoked>>

\* An iteration of the collapsed loop over the full range does work if the
\* tile is strictly lower and local.
HostNestIterWorksFull(i, j) == i # j /\ tileIsLocal(i, j)

HostNestIterWorks(i, j) == i >= j + 1 /\ tileIsLocal(i, j)

HostNestForUnit(i, j) ==
    [kind |-> "gemm", out |-> <<i, j>>, ins |-> {<<i, 0>>, <<j, 0>>},
     reads |-> <<i, j>>, ticks |-> <<i, j>>, catch |-> 202]

\* #pragma omp parallel for collapse(2) schedule(dynamic, 1):
\* the iterations (j, i) of the full range are handed to the threads.
HostNestForIter ==
    /\ spc = "hn_for"
    /\ LET j == cur[1]
           i == cur[2]
       IN /\ IF HostNestIterWorks(i, j)
             THEN CreateUnit(HostNestForUnit(i, j))
             ELSE UNCHANGED <<units, ustate>>
          /\ IF i + 1 < C_mt
             THEN cur' = <<j, i + 1>> /\ spc' = spc
             ELSE IF j + 1 < C_nt
                  THEN cur' = <<j + 1, 0>> /\ spc' = spc
                  ELSE cur' = cur /\ spc' = "hn_for_join"
    /\ UNCHANGED <<gemmVars, syrkInputs, devpc, tileVars, endVars, invoked>>

\* barrier at the end of the parallel loop
HostNestForJoin ==
    /\ spc = "hn_for_join"
    /\ UnitsJoined
    /\ spc' = "return"
    /\ UNCHANGED <<gemmVars, syrkInputs, cur, units, ustate, devpc, tileVars,
                   endVars, invoked>>

----------------------------------------------------------------------------
(* syrk: Target::HostBatch *)

\* slate_not_implemented unless BLAS_HAVE_MKL
HostBatchAvailable == haveMKL

HostBatchEntry ==
    /\ routine = "syrk"
    /\ spc = "entry"
    /\ target = "HostBatch"
    /\ IF HostBatchAvailable
       THEN /\ spc' = "hb_diag"
            /\ UNCHANGED <<result, raised>>
       ELSE /\ spc' = "done"
            /\ result' = "NotSupported"
            /\ raised' = [line |-> 373, what |-> 0]
    /\ cur' = <<0, 0>>
    /\ UNCHANGED <<gemmVars, syrkInputs, units, ustate, devpc, tileVars, err,
                   invoked>>

\* The task created for the local diagonal tile C(j, j).
HostBatchDiagUnit(j) ==
    [kind |-> "syrk", out |-> <<j, j>>, ins |-> {<<j, 0>>},
     reads |-> <<j>>, ticks |-> <<j, j>>, catch |-> 255]

\* diagonal tiles by syrk on host: one task per local diagonal tile
HostBatchDiagIter ==
    /\ spc = "hb_diag"
    /\ LET j == cur[1]
       IN /\ IF tileIsLocal(j, j)
             THEN CreateUnit(HostBatchDiagUnit(j))
             ELSE UNCHANGED <<units, ustate>>
          /\ IF j + 1 < C_nt
             THEN cur' = <<j + 1, 0>> /\ spc' = spc
             ELSE cur' = cur /\ spc' = "hb_diag_join"
    /\ UNCHANGED <<gemmVars, syrkInputs, devpc, tileVars, endVars, invoked>>

\* end of the taskgroup of the diagonal tasks
HostBatchDiagJoin ==
    /\ spc = "hb_diag_join"
    /\ UnitsJoined
    /\ spc' = "hb_fetch"
    /\ UNCHANGED <<gemmVars, syrkInputs, cur, units, ustate, devpc, tileVars,
                   endVars, invoked>>

\* The local strictly lower tiles: for j in 0..nt-1, for i in j+1..mt-1.
HostBatchTilesWithDiagonal ==
    {t \in (0..(C_mt - 1)) \X (0..(C_nt - 1)) :
        t[1] >= t[2] /\ tileIsLocal(t[1], t[2])}

HostBatchTiles ==
    {t \in (0..(C_mt - 1)) \X (0..(C_nt - 1)) :
        t[1] >= t[2] + 1 /\ tileIsLocal(t[1], t[2])}

\* load off-diagonal tiles to host, if not there; also count tiles
HostBatchFetch ==
    /\ spc = "hb_fetch"
    /\ fetched' = fetched
           \cup GetForReading({<<t[1], 0>> : t \in HostBatchTiles}, "host")
           \cup GetForReading({<<t[2], 0>> : t \in HostBatchTiles}, "host")
           \cup GetForWriting(HostBatchTiles, "host")
    /\ reads' = [r \in DOMAIN reads |-> reads[r] + Uses(HostBatchTiles, r)]
    /\ spc' = "hb_batch"
    /\ UNCHANGED <<gemmVars, syrkInputs, cur, units, ustate, devpc, updates, ticks,
                   released, exists, batchCalls, queue, endVars, invoked>>

\* a_array, b_array, c_array of the batch: A(i, 0), A(j, 0), C(i, j)
HostBatchArrays ==
    {[a |-> <<t[1], 0>>, b |-> <<t[2], 0>>, c |-> t] : t \in HostBatchTiles}

\* if (batch_count > 0): resolve opA (or throw std::exception()), then the
\* off-diagonal tiles by batch gemm on host
HostBatchGemm ==
    /\ spc = "hb_batch"
    /\ IF Cardinality(HostBatchTiles) > 0
       THEN IF ResolveOpA = "throw"
            THEN /\ result' = "exception"
                 /\ raised' = [line |-> 287, what |-> 0]
                 /\ spc' = "done"
                 /\ UNCHANGED <<updates, batchCalls, queue, ticks>>
            ELSE /\ updates' = ApplyBatch(updates, "gemm", HostBatchArrays)
                 /\ batchCalls' = batchCalls \cup
                        {[loc |-> "host", name |-> "cblas_gemm_batch",
                          kind |-> "gemm", entries |-> HostBatchArrays,
                          args |-> BatchGemmArgs]}
                 /\ queue' = queue
                 /\ spc' = "hb_tick"
                 /\ UNCHANGED <<result, raised>>
       ELSE /\ spc' = "return"
            /\ UNCHANGED <<updates, batchCalls, queue, result, raised>>
    /\ UNCHANGED <<gemmVars, syrkInputs, cur, units, ustate, devpc, fetched, reads,
                   ticks, released, exists, err, invoked>>

\* after cblas_gemm_batch has returned: A.tileTick(i, 0) and A.tileTick(j, 0)
\* for each local strictly lower tile C(i, j)
HostBatchTick ==
    /\ spc = "hb_tick"
    /\ ticks' = [r \in DOMAIN ticks |-> ticks[r] + Uses(HostBatchTiles, r)]
    /\ spc' = "return"
    /\ UNCHANGED <<gemmVars, syrkInputs, cur, units, ustate, devpc, updates,
                   fetched, reads, released, exists, batchCalls, queue, endVars,
                   invoked>>

----------------------------------------------------------------------------
(* syrk: Target::Devices *)

OnDeviceAnyLocal(i, j, device) == tileIsLocal(i, j)

OnDevice(i, j, device) == tileIsLocal(i, j) /\ device = tileDevice(i, j)

LowerRange == {t \in (0..(C_mt - 1)) \X (0..(C_nt - 1)) : t[1] >= t[2]}

\* The sets filled by the loop over the lower triangle.
C_tiles_gemm(device) ==
    {t \in LowerRange : OnDevice(t[1], t[2], device) /\ t[1] # t[2]}

A_tiles_gemm(device) ==
    {<<t[1], 0>> : t \in C_tiles_gemm(device)} \cup
    {<<t[2], 0>> : t \in C_tiles_gemm(device)}

C_tiles_syrk(device) ==
    {t \in LowerRange : OnDevice(t[1], t[2], device) /\ t[1] = t[2]}

A_tiles_syrk(device) == {<<t[2], 0>> : t \in C_tiles_syrk(device)}

\* interior: for j in 0..nt-2, for i in j+1..mt-2
array_gemm00_short(device) ==
    {[a |-> <<t[1], 0>>, b |-> <<t[2], 0>>, c |-> t] :
        t \in {x \in (0..(C_mt - 3)) \X (0..(C_nt - 2)) :
                  x[1] >= x[2] + 1 /\ OnDevice(x[1], x[2], device)}}

array_gemm00(device) ==
    {[a |-> <<t[1], 0>>, b |-> <<t[2], 0>>, c |-> t] :
        t \in {x \in (0..(C_mt - 2)) \X (0..(C_nt - 2)) :
                  x[1] >= x[2] + 1 /\ OnDevice(x[1], x[2], device)}}

\* bottom row: i = mt-1, for j in 0..nt-2
array_gemm10(device) ==
    {[a |-> <<t[1], 0>>, b |-> <<t[2], 0>>, c |-> t] :
        t \in {x \in {C_mt - 1} \X (0..(C_nt - 2)) : OnDevice(x[1], x[2], device)}}

\* diagonal: for j in 0..nt-2
array_syrk0_all(device) ==
    {[a |-> <<j, 0>>, c |-> <<j, j>>] :
        j \in {x \in 0..(C_nt - 1) : OnDevice(x, x, device)}}

array_syrk0(device) ==
    {[a |-> <<j, 0>>, c |-> <<j, j>>] :
        j \in {x \in 0..(C_nt - 2) : OnDevice(x, x, device)}}

\* bottom-right corner: i = mt-1, j = nt-1
array_syrk1(device) ==
    IF OnDevice(C_mt - 1, C_nt - 1, device)
    THEN {[a |-> <<C_nt - 1, 0>>, c |-> <<C_nt - 1, C_nt - 1>>]}
    ELSE {}

\* if (C.nt() == 1): if single tile, avoid creating tasks for all devices
SingleTileNever == FALSE

SingleTile == C_nt = 1

\* assert(C.num_devices() > 0); then, if (C.nt() == 1), a single task for the
\* single tile, if it is local; else one task per device. Without a device
\* the task of the single tile has no device to take from C.tileDevice(0, 0):
\* the call crashes.
DevicesEntry ==
    /\ routine = "syrk"
    /\ spc = "entry"
    /\ target = "Devices"
    /\ IF asserts /\ ~(num_devices > 0)
       THEN /\ spc' = "aborted"
            /\ result' = "assert"
            /\ raised' = [line |-> 395, what |-> 0]
            /\ devpc' = devpc
       ELSE IF SingleTile
       THEN IF tileIsLocal(0, 0)
            THEN IF tileDevice(0, 0) \in DOMAIN devpc
                 THEN /\ devpc' = [devpc EXCEPT ![tileDevice(0, 0)] = "single_fetch"]
                      /\ spc' = "dev_join"
                      /\ UNCHANGED <<result, raised>>
                 ELSE /\ spc' = "aborted"
                      /\ result' = "crash"
                      /\ UNCHANGED <<devpc, raised>>
            ELSE /\ spc' = "dev_join"
                 /\ UNCHANGED <<devpc, result, raised>>
       ELSE /\ spc' = IF 0 < num_devices THEN "dev_loop" ELSE "dev_join"
            /\ UNCHANGED <<devpc, result, raised>>
    /\ cur' = <<0, 0>>
    /\ UNCHANGED <<gemmVars, syrkInputs, units, ustate, tileVars, err, invoked>>

\* for device in 0..num_devices-1: create the task of the device
DevicesCreateTask ==
    /\ spc = "dev_loop"
    /\ LET device == cur[1]
       IN /\ devpc' = [devpc EXCEPT ![device] = "fetch_gemm"]
          /\ IF device + 1 < num_devices
             THEN cur' = <<device + 1, 0>> /\ spc' = spc
             ELSE cur' = cur /\ spc' = "dev_join"
    /\ UNCHANGED <<gemmVars, syrkInputs, units, ustate, tileVars, endVars, invoked>>

\* end of the taskgroup around both branches
DevicesJoin ==
    /\ spc = "dev_join"
    /\ \A d \in DOMAIN devpc : devpc[d] \in {"none", "done"}
    /\ spc' = "return"
    /\ UNCHANGED <<gemmVars, syrkInputs, cur, units, ustate, devpc, tileVars,
                   endVars, invoked>>

\* A kernel call on the compute queue of a device returns at once: the kernel
\* runs later, and queue->sync() returns when every kernel of the queue is done.
EnqueueNothing(q, device, name, kind, entries) == q

Enqueue(q, device, name, kind, entries) ==
    [q EXCEPT ![device] = @ \cup {[name |-> name, kind |-> kind, entries |-> entries]}]

QueueSyncNoWait(q, device) == q

QueueSync(q, device) == [q EXCEPT ![device] = {}]

\* single tile: the operator blas::syrk is given, A00.op()
SingleSyrkOp == opA

\* single tile: fetch A(0, 0) and C(0, 0) on the tile's device
SingleFetch(device) ==
    /\ device \in DOMAIN devpc
    /\ devpc[device] = "single_fetch"
    /\ fetched' = fetched \cup GetForReading({<<0, 0>>}, device)
                          \cup GetForWriting({<<0, 0>>}, device)
    /\ reads' = CountCalls(reads, <<0>>)
    /\ devpc' = [devpc EXCEPT ![device] = "single_syrk"]
    /\ UNCHANGED <<gemmVars, syrkInputs, spc, cur, units, ustate, updates, ticks,
                   released, exists, batchCalls, queue, endVars, invoked>>

\* single tile: blas::syrk on the device queue. The task has no try block:
\* an exception of the kernel leaves the task region, and the OpenMP runtime
\* ends the program with std::terminate.
SingleSyrk(device) ==
    /\ device \in DOMAIN devpc
    /\ devpc[device] = "single_syrk"
    /\ IF Throws(<<0, 0>>)
       THEN /\ result' = "terminate"
            /\ spc' = "aborted"
            /\ UNCHANGED <<updates, devpc, queue>>
       ELSE /\ updates' = [updates EXCEPT ![<<0, 0>>] =
                               Append(@, Update("syrk", {<<0, 0>>}))]
            /\ queue' = Enqueue(queue, device, "blas::syrk", "syrk",
                                {[a |-> <<0, 0>>, c |-> <<0, 0>>]})
            /\ devpc' = [devpc EXCEPT ![device] = "single_sync"]
            /\ UNCHANGED <<result, spc>>
    /\ UNCHANGED <<gemmVars, syrkInputs, cur, units, ustate, fetched, reads, ticks,
                   released, exists, batchCalls, err, raised, invoked>>

\* single tile: queue->sync()
SingleSync(device) ==
    /\ device \in DOMAIN devpc
    /\ devpc[device] = "single_sync"
    /\ queue' = QueueSync(queue, device)
    /\ devpc' = [devpc EXCEPT ![device] = "single_release"]
    /\ UNCHANGED <<gemmVars, syrkInputs, spc, cur, units, ustate, updates, fetched,
                   reads, ticks, released, exists, batchCalls, endVars, invoked>>

\* single tile: if (call_tile_tick), the release of A(0, 0) on the device
\* and two ticks
SingleRelease(device) ==
    /\ device \in DOMAIN devpc
    /\ devpc[device] = "single_release"
    /\ IF call_tile_tick
       THEN /\ released' = released \cup {<<0, device>>}
            /\ ticks' = CountCalls(ticks, <<0, 0>>)
       ELSE UNCHANGED <<released, ticks>>
    /\ devpc' = [devpc EXCEPT ![device] = "done"]
    /\ UNCHANGED <<gemmVars, syrkInputs, spc, cur, units, ustate, updates, fetched,
                   reads, exists, batchCalls, queue, endVars, invoked>>

\* catch (std::exception& e) of the task of a device: err = __LINE__
DeviceCaught(device) ==
    /\ devpc' = [devpc EXCEPT ![device] = "done"]
    /\ err' = 723

\* The task of a device resolves opA (or throws), fills its sets, then, in a
\* taskgroup: A.tileGetForReading(A_tiles_gemm), C.tileGetForWriting(C_tiles_gemm)
DeviceFetchGemm(device) ==
    /\ device \in DOMAIN devpc
    /\ devpc[device] = "fetch_gemm"
    /\ IF ResolveOpA = "throw"
       THEN /\ DeviceCaught(device)
            /\ UNCHANGED <<fetched, reads>>
       ELSE /\ fetched' = fetched \cup GetForReading(A_tiles_gemm(device), device)
                                  \cup GetForWriting(C_tiles_gemm(device), device)
            /\ reads' = [r \in DOMAIN reads |->
                            reads[r] + IF <<r, 0>> \in A_tiles_gemm(device)
                                       THEN 1 ELSE 0]
            /\ devpc' = [devpc EXCEPT ![device] = "gemm00"]
            /\ err' = err
    /\ UNCHANGED <<gemmVars, syrkInputs, spc, cur, units, ustate, updates, ticks,
                   released, exists, batchCalls, queue, raised, result, invoked>>

\* One batched call of a device task, issued if the batch is not empty. The
\* call throws if the tile whose kernel throws is in the batch: the catch
\* clause of the task ends the task.
DeviceBatch(device, from, to, name, kind, entries) ==
    /\ device \in DOMAIN devpc
    /\ devpc[device] = from
    /\ IF entries # {}
       THEN IF \E e \in entries : Throws(e.c)
            THEN /\ DeviceCaught(device)
                 /\ UNCHANGED <<updates, batchCalls, queue>>
            ELSE /\ updates' = ApplyBatch(updates, kind, entries)
                 /\ batchCalls' = batchCalls \cup
                        {[loc |-> device, name |-> name, kind |-> kind,
                          entries |-> entries, args |-> BatchArgs(kind)]}
                 /\ queue' = Enqueue(queue, device, name, kind, entries)
                 /\ devpc' = [devpc EXCEPT ![device] = to]
                 /\ err' = err
       ELSE /\ devpc' = [devpc EXCEPT ![device] = to]
            /\ UNCHANGED <<updates, batchCalls, queue, err>>
    /\ UNCHANGED <<gemmVars, syrkInputs, spc, cur, units, ustate, fetched, reads,
                   ticks, released, exists, raised, result, invoked>>

\* if (c_array_gemm00.size() > 0) blas::batch::gemm
DeviceGemm00(device) ==
    DeviceBatch(device, "gemm00", "gemm10", "gemm00", "gemm", array_gemm00(device))

\* if (c_array_gemm10.size() > 0) blas::batch::gemm
DeviceGemm10(device) ==
    DeviceBatch(device, "gemm10", "fetch_syrk", "gemm10", "gemm", array_gemm10(device))

\* taskgroup: A.tileGetForReading(A_tiles_syrk), C.tileGetForWriting(C_tiles_syrk)
DeviceFetchSyrk(device) ==
    /\ device \in DOMAIN devpc
    /\ devpc[device] = "fetch_syrk"
    /\ fetched' = fetched \cup GetForReading(A_tiles_syrk(device), device)
                          \cup GetForWriting(C_tiles_syrk(device), device)
    /\ reads' = [r \in DOMAIN reads |->
                    reads[r] + IF <<r, 0>> \in A_tiles_syrk(device) THEN 1 ELSE 0]
    /\ devpc' = [devpc EXCEPT ![device] = "syrk0"]
    /\ UNCHANGED <<gemmVars, syrkInputs, spc, cur, units, ustate, updates, ticks,
                   released, exists, batchCalls, queue, endVars, invoked>>

\* if (c_array_syrk0.size() > 0) blas::batch::syrk
DeviceSyrk0(device) ==
    DeviceBatch(device, "syrk0", "syrk1", "syrk0", "syrk", array_syrk0(device))

\* if (c_array_syrk1.size() > 0) blas::batch::syrk
DeviceSyrk1(device) ==
    DeviceBatch(device, "syrk1", "sync", "syrk1", "syrk", array_syrk1(device))

\* The tiles of the release loop: the local lower tiles held on the device.
DeviceTiles(device) == {t \in LowerRange : OnDevice(t[1], t[2], device)}

\* The ticks of the release loop on A(r, 0): A.tileTick(i, 0) and
\* A.tileTick(j, 0) for each tile C(i, j) of the loop.
DeviceTicksOncePerTile(device, r) ==
    Cardinality({t \in DeviceTiles(device) : t[1] = r \/ t[2] = r})

DeviceTicks(device, r) == Uses(DeviceTiles(device), r)

\* queue->sync(): the one synchronization of the task of a device
DeviceSync(device) ==
    /\ device \in DOMAIN devpc
    /\ devpc[device] = "sync"
    /\ queue' = QueueSync(queue, device)
    /\ devpc' = [devpc EXCEPT ![device] = "release"]
    /\ UNCHANGED <<gemmVars, syrkInputs, spc, cur, units, ustate, updates, fetched,
                   reads, ticks, released, exists, batchCalls, endVars, invoked>>

\* if (call_tile_tick), for each local lower tile C(i, j) of the device:
\* release A(i, 0) and A(j, 0) on the device, tick both
DeviceRelease(device) ==
    /\ device \in DOMAIN devpc
    /\ devpc[device] = "release"
    /\ IF call_tile_tick
       THEN /\ released' = released
                   \cup {<<t[1], device>> : t \in DeviceTiles(device)}
                   \cup {<<t[2], device>> : t \in DeviceTiles(device)}
            /\ ticks' = [r \in DOMAIN ticks |-> ticks[r] + DeviceTicks(device, r)]
       ELSE UNCHANGED <<released, ticks>>
    /\ devpc' = [devpc EXCEPT ![device] = "done"]
    /\ UNCHANGED <<gemmVars, syrkInputs, spc, cur, units, ustate, updates, fetched,
                   reads, exists, batchCalls, queue, endVars, invoked>>

----------------------------------------------------------------------------
(* syrk: the specifications *)

MaxUnits == (MaxGrid * (MaxGrid + 1)) \div 2

DeviceIds == 0..(MaxDevices - 1)

NextSyrk ==
    \/ SyrkDispatch
    \/ HostTaskEntry
    \/ HostTaskIter
    \/ HostTaskJoin
    \/ HostNestEntry
    \/ HostNestDiagIter
    \/ HostNestDiagJoin
    \/ HostNestForIter
    \/ HostNestForJoin
    \/ HostBatchEntry
    \/ HostBatchDiagIter
    \/ HostBatchDiagJoin
    \/ HostBatchFetch
    \/ HostBatchGemm
    \/ HostBatchTick
    \/ DevicesEntry
    \/ DevicesCreateTask
    \/ DevicesJoin
    \/ SyrkReturn
    \/ \E n \in 1..MaxUnits : StartUnit(n)
    \/ \E n \in 1..MaxUnits : FinishUnit(n)
    \/ \E d \in DeviceIds : SingleFetch(d)
    \/ \E d \in DeviceIds : SingleSyrk(d)
    \/ \E d \in DeviceIds : SingleSync(d)
    \/ \E d \in DeviceIds : SingleRelease(d)
    \/ \E d \in DeviceIds : DeviceFetchGemm(d)
    \/ \E d \in DeviceIds : DeviceGemm00(d)
    \/ \E d \in DeviceIds : DeviceGemm10(d)
    \/ \E d \in DeviceIds : DeviceFetchSyrk(d)
    \/ \E d \in DeviceIds : DeviceSyrk0(d)
    \/ \E d \in DeviceIds : DeviceSyrk1(d)
    \/ \E d \in DeviceIds : DeviceSync(d)
    \/ \E d \in DeviceIds : DeviceRelease(d)

\* Usual calls of syrk in which every kernel succeeds.
SpecSyrk == InitSyrk /\ [][NextSyrk]_vars

\* Usual calls of syrk in which the kernel of at most one tile throws.
SpecSyrkFault == InitSyrkFault /\ [][NextSyrk]_vars

\* Usual calls of syrk in which the kernels of any number of tiles throw.
SpecSyrkFaults == InitSyrkFaults /\ [][NextSyrk]_vars

\* Accepted calls of syrk with any tile release strategy or any operators.
SpecSyrkOpts == InitSyrkOpts /\ [][NextSyrk]_vars

----------------------------------------------------------------------------
(* trsmA: the dispatcher and the host targets *)

\* The tiles of B: one block row if side is Left, one block column if Right.
BTiles == (0..(B_mt - 1)) \X (0..(B_nt - 1))

\* The tile of B that index i of the loop over B stands for.
BTile(i) == IF side = "Right" THEN <<i, 0>> ELSE <<0, i>>

\* The range of the loop: B.mt() if side is Right, B.nt() if it is Left.
BLoopEnd == IF side = "Right" THEN B_mt ELSE B_nt

\* trsmA<target>: A is one tile and B one block row or one block column (the
\* asserts); call the implementation of the target.
TrsmADispatch ==
    /\ routine = "trsmA"
    /\ spc = "dispatch"
    /\ invoked' = Append(invoked, <<"trsmA", target>>)
    /\ spc' = "entry"
    /\ UNCHANGED <<gemmVars, syrkInputs, cur, units, ustate, devpc, tileVars, endVars>>

\* The HostNest and the HostBatch implementations call the HostTask one.
TrsmADelegate ==
    /\ routine = "trsmA"
    /\ spc = "entry"
    /\ target \in {"HostNest", "HostBatch"}
    /\ invoked' = Append(invoked, <<target, "HostTask">>)
    /\ spc' = "ta_host"
    /\ UNCHANGED <<gemmVars, syrkInputs, cur, units, ustate, devpc, tileVars, endVars>>

\* HostTask: A.tileGetForReading(0, 0, HostNum)
TrsmAHostTaskEntry ==
    /\ routine = "trsmA"
    /\ \/ spc = "entry" /\ target = "HostTask"
       \/ spc = "ta_host"
    /\ fetched' = fetched \cup GetForReading({<<0, 0>>}, "host")
    /\ reads' = CountCalls(reads, <<0>>)
    /\ spc' = "ta_loop"
    /\ cur' = <<0, 0>>
    /\ UNCHANGED <<gemmVars, syrkInputs, units, ustate, devpc, updates, ticks,
                   released, exists, batchCalls, queue, endVars, invoked>>

\* The task of one tile of B: B.tileGetForWriting, then tile::trsm with A(0, 0).
TrsmAUnit(i) ==
    [kind |-> "trsm", out |-> BTile(i), ins |-> {<<0, 0>>},
     reads |-> <<>>, ticks |-> <<>>, catch |-> 0]

\* for i in 0..B.mt()-1 (Right) or j in 0..B.nt()-1 (Left): one task per tile
TrsmAHostTaskIter ==
    /\ spc = "ta_loop"
    /\ CreateUnit(TrsmAUnit(cur[1]))
    /\ IF cur[1] + 1 < BLoopEnd
       THEN cur' = <<cur[1] + 1, 0>> /\ spc' = spc
       ELSE cur' = cur /\ spc' = "ta_join"
    /\ UNCHANGED <<gemmVars, syrkInputs, devpc, tileVars, endVars, invoked>>

\* A task starts: B.tileGetForWriting of its tile.
TrsmAStartUnit(n) ==
    /\ routine = "trsmA"
    /\ n \in 1..Len(units)
    /\ ustate[n] = "created"
    /\ ustate' = [ustate EXCEPT ![n] = "running"]
    /\ fetched' = fetched \cup
           {[mat |-> "B", tile |-> units[n].out, mode |-> "write", loc |-> "host"]}
    /\ UNCHANGED <<gemmVars, syrkInputs, spc, cur, units, devpc, updates, reads,
                   ticks, released, exists, batchCalls, queue, endVars, invoked>>

\* A task ends: tile::trsm has updated its tile of B.
TrsmAFinishUnit(n) ==
    /\ routine = "trsmA"
    /\ n \in 1..Len(units)
    /\ ustate[n] = "running"
    /\ ustate' = [ustate EXCEPT ![n] = "done"]
    /\ updates' = [updates EXCEPT ![units[n].out] =
                       Append(@, Update(units[n].kind, units[n].ins))]
    /\ UNCHANGED <<gemmVars, syrkInputs, spc, cur, units, devpc, fetched, reads,
                   ticks, released, exists, batchCalls, queue, endVars, invoked>>

\* end of the taskgroup, and of the call
TrsmAHostTaskJoin ==
    /\ spc = "ta_join"
    /\ UnitsJoined
    /\ spc' = "done"
    /\ result' = "ok"
    /\ UNCHANGED <<gemmVars, syrkInputs, cur, units, ustate, devpc, tileVars, err,
                   raised, invoked>>

----------------------------------------------------------------------------
(* trsmA: Target::Devices *)

\* if (B.op() != Op::NoTrans): throw std::exception() in the complex case
\* when op(A) is neither NoTrans nor op(B)
TrsmAOpThrows ==
    /\ opB # "NoTrans"
    /\ ~is_real
    /\ opA # "NoTrans"
    /\ opA # opB

\* The asserts (B.num_devices() > 0), then the resolution of the operators.
TrsmADevicesEntry ==
    /\ routine = "trsmA"
    /\ spc = "entry"
    /\ target = "Devices"
    /\ IF asserts /\ ~(num_devices > 0)
       THEN /\ spc' = "aborted"
            /\ result' = "assert"
            /\ raised' = [line |-> 159, what |-> 0]
       ELSE IF TrsmAOpThrows
       THEN /\ spc' = "done"
            /\ result' = "exception"
            /\ raised' = [line |-> 172, what |-> 0]
       ELSE /\ spc' = IF 0 < num_devices THEN "ta_dev_loop" ELSE "ta_dev_join"
            /\ UNCHANGED <<result, raised>>
    /\ cur' = <<0, 0>>
    /\ UNCHANGED <<gemmVars, syrkInputs, units, ustate, devpc, tileVars, err, invoked>>

\* for device in 0..num_devices-1: create the task of the device
TrsmADevicesCreateTask ==
    /\ spc = "ta_dev_loop"
    /\ LET device == cur[1]
       IN /\ devpc' = [devpc EXCEPT ![device] = "ta_fetch"]
          /\ IF device + 1 < num_devices
             THEN cur' = <<device + 1, 0>> /\ spc' = spc
             ELSE cur' = cur /\ spc' = "ta_dev_join"
    /\ UNCHANGED <<gemmVars, syrkInputs, units, ustate, tileVars, endVars, invoked>>

\* The tiles of B that are local or that exist on the device.
B_tiles_set(device) ==
    {t \in BTiles : tileIsLocal(t[1], t[2]) \/ <<t, device>> \in exists}

\* if (batch_size > 0): A.tileGetForReading(0, 0, device) and
\* B.tileGetForWriting(B_tiles_set, device); else the task ends
TrsmADeviceFetch(device) ==
    /\ device \in DOMAIN devpc
    /\ devpc[device] = "ta_fetch"
    /\ IF Cardinality(B_tiles_set(device)) > 0
       THEN /\ fetched' = fetched \cup GetForReading({<<0, 0>>}, device)
                   \cup {[mat |-> "B", tile |-> t, mode |-> "write", loc |-> device] :
                            t \in B_tiles_set(device)}
            /\ reads' = CountCalls(reads, <<0>>)
            /\ exists' = exists \cup {<<t, device>> : t \in B_tiles_set(device)}
            /\ devpc' = [devpc EXCEPT ![device] = "ta_trsm0"]
       ELSE /\ devpc' = [devpc EXCEPT ![device] = "done"]
            /\ UNCHANGED <<fetched, reads, exists>>
    /\ UNCHANGED <<gemmVars, syrkInputs, spc, cur, units, ustate, updates, ticks,
                   released, batchCalls, queue, endVars, invoked>>

\* interior col or row: the tiles before the last that exist on the device
trsm_array0(device) ==
    {[a |-> <<0, 0>>, c |-> BTile(i)] :
        i \in {x \in 0..(BLoopEnd - 2) : <<BTile(x), device>> \in exists}}

\* bottom-right tile: the last tile, if it exists on the device
trsm_array1(device) ==
    IF <<BTile(BLoopEnd - 1), device>> \in exists
    THEN {[a |-> <<0, 0>>, c |-> BTile(BLoopEnd - 1)]}
    ELSE {}

\* if (a_array0.size() > 0) blas::batch::trsm
TrsmADeviceTrsm0(device) ==
    /\ routine = "trsmA"
    /\ DeviceBatch(device, "ta_trsm0", "ta_trsm1", "trsm0", "trsm", trsm_array0(device))

\* if (a_array1.size() > 0) blas::batch::trsm
TrsmADeviceTrsm1(device) ==
    /\ routine = "trsmA"
    /\ DeviceBatch(device, "ta_trsm1", "ta_sync", "trsm1", "trsm", trsm_array1(device))

\* queue->sync(); then, if the strategy is Internal or All: release A(0, 0)
\* on the device and tick it batch_size times
TrsmADeviceSync(device) ==
    /\ device \in DOMAIN devpc
    /\ devpc[device] = "ta_sync"
    /\ IF call_tile_tick
       THEN /\ released' = released \cup {<<0, device>>}
            /\ ticks' = [ticks EXCEPT ![0] = @ + Cardinality(B_tiles_set(device))]
       ELSE UNCHANGED <<released, ticks>>
    /\ queue' = QueueSync(queue, device)
    /\ devpc' = [devpc EXCEPT ![device] = "done"]
    /\ UNCHANGED <<gemmVars, syrkInputs, spc, cur, units, ustate, updates, fetched,
                   reads, exists, batchCalls, endVars, invoked>>

\* end of the taskgroup, and of the call
TrsmADevicesJoin ==
    /\ spc = "ta_dev_join"
    /\ \A d \in DOMAIN devpc : devpc[d] \in {"none", "done"}
    /\ spc' = "done"
    /\ result' = "ok"
    /\ UNCHANGED <<gemmVars, syrkInputs, cur, units, ustate, devpc, tileVars, err,
                   raised, invoked>>

NextTrsmA ==
    \/ TrsmADispatch
    \/ TrsmADelegate
    \/ TrsmAHostTaskEntry
    \/ TrsmAHostTaskIter
    \/ TrsmAHostTaskJoin
    \/ TrsmADevicesEntry
    \/ TrsmADevicesCreateTask
    \/ TrsmADevicesJoin
    \/ \E n \in 1..MaxUnits : TrsmAStartUnit(n)
    \/ \E n \in 1..MaxUnits : TrsmAFinishUnit(n)
    \/ \E d \in DeviceIds : TrsmADeviceFetch(d)
    \/ \E d \in DeviceIds : TrsmADeviceTrsm0(d)
    \/ \E d \in DeviceIds : TrsmADeviceTrsm1(d)
    \/ \E d \in DeviceIds : TrsmADeviceSync(d)

----------------------------------------------------------------------------
(* The calls followed from the dispatchers *)

\* A call of internal::trsmA<target>: A is one tile, B one block row (Left)
\* or one block column (Right); tiles of B may already exist on a device.
TrsmACall ==
    /\ routine = "trsmA"
    /\ target \in SyrkTargets
    /\ side \in {"Left", "Right"}
    /\ B_mt \in (IF side = "Left" THEN {1} ELSE 1..MaxCallGrid)
    /\ B_nt \in (IF side = "Left" THEN 1..MaxCallGrid ELSE {1})
    /\ opA \in Ops
    /\ opB \in Ops
    /\ is_real \in BOOLEAN
    /\ asserts \in (IF target = "Devices" THEN BOOLEAN ELSE {TRUE})
    /\ num_devices \in (IF target = "Devices" THEN 0..1 ELSE {1})
    /\ tileOwner \in [{0, 1} \X {0, 1} -> Owners(1)]
    /\ tile_release_strategy = "All"
    /\ haveMKL = TRUE
    /\ skipHostNest = FALSE
    /\ NoSyrkInputs
    /\ spc = "dispatch"
    /\ updates = [t \in BTiles |-> <<>>]
    /\ reads = [r \in {0} |-> 0]
    /\ ticks = [r \in {0} |-> 0]
    /\ exists \in (IF target = "Devices"
                  THEN SUBSET (BTiles \X (0..(num_devices - 1)))
                  ELSE {{}})
    /\ invoked = <<>>
    /\ CallNotStarted
    /\ GemmIdle

\* A call of internal::trsmA<target> on a matrix B spread over one or several
\* devices, with any tile release strategy; one tile of B at most has a copy
\* on a device before the call.
InitTrsmA ==
    /\ routine = "trsmA"
    /\ target \in SyrkTargets
    /\ side \in {"Left", "Right"}
    /\ B_mt \in (IF side = "Left" THEN {1} ELSE 1..MaxTrsmGrid)
    /\ B_nt \in (IF side = "Left" THEN 1..MaxTrsmGrid ELSE {1})
    /\ opA = "NoTrans"
    /\ opB = "NoTrans"
    /\ is_real = TRUE
    /\ asserts = TRUE
    /\ num_devices \in (IF target = "Devices" THEN 1..MaxDevices ELSE {1})
    /\ tileOwner \in [{0, 1} \X {0, 1} -> Owners(num_devices)]
    /\ tile_release_strategy \in ReleaseStrategies
    /\ haveMKL = TRUE
    /\ skipHostNest = FALSE
    /\ NoSyrkInputs
    /\ spc = "dispatch"
    /\ updates = [t \in BTiles |-> <<>>]
    /\ reads = [r \in {0} |-> 0]
    /\ ticks = [r \in {0} |-> 0]
    /\ exists \in (IF target = "Devices"
                  THEN {{}} \cup {{x} : x \in BTiles \X (0..(num_devices - 1))}
                  ELSE {{}})
    /\ invoked = <<>>
    /\ CallNotStarted
    /\ GemmIdle

SpecTrsmA == InitTrsmA /\ [][NextTrsmA]_vars

\* A call of internal::syrk<target> with any uplo and operators, on matrices
\* with or without a device, built with or without assertions.
SyrkAnyCall ==
    /\ target \in SyrkTargets
    /\ C_nt \in 1..MaxCallGrid
    /\ uplo \in {"Lower", "Upper"}
    /\ opC \in Ops
    /\ opA \in Ops
    /\ is_real \in BOOLEAN
    /\ asserts \in (IF target = "Devices" THEN BOOLEAN ELSE {TRUE})
    /\ num_devices \in (IF target = "Devices" THEN 0..1 ELSE {1})
    /\ tileOwner \in [{0, 1} \X {0, 1} -> Owners(1)]
    /\ tile_release_strategy = "All"
    /\ faulty = NoTile
    /\ throwing = {}
    /\ SyrkBuild
    /\ SyrkCall

\* A call of gemm with any Option::Target, on matrices with or without a device.
GemmAnyCall ==
    /\ A_nt \in 1..MaxCallGrid
    /\ lookahead \in 0..(MaxCallGrid - 1)
    /\ num_devices \in 0..1
    /\ GemmCall

InitCall == GemmAnyCall \/ SyrkAnyCall \/ TrsmACall

NextCall == NextGemm \/ NextSyrk \/ NextTrsmA

\* Any one call of gemm, internal::syrk or internal::trsmA.
SpecCall == InitCall /\ [][NextCall]_vars

----------------------------------------------------------------------------
(* gemm: vocabulary of the properties *)

TaskIds == 1..Len(tasks)

Started(kind, p) ==
    \E i \in TaskIds : /\ tasks[i].kind = kind
                       /\ tasks[i].panel = p
                       /\ status[i] \in {"running", "prep", "done"}

Running(kind, p) ==
    \E i \in TaskIds : /\ tasks[i].kind = kind
                       /\ tasks[i].panel = p
                       /\ status[i] \in {"running", "prep"}

Completed(kind, p) ==
    \E i \in TaskIds : /\ tasks[i].kind = kind
                       /\ tasks[i].panel = p
                       /\ status[i] = "done"

NumRunning(kind) ==
    Cardinality({i \in TaskIds : tasks[i].kind = kind /\
                                 status[i] \in {"running", "prep"}})

AllPanelsDone ==
    \A p \in 0..(A_nt - 1) : Completed("bcast", p) /\ Completed("gemm", p)

\* The compute frontier: the lowest panel whose Compute has not completed.
Frontier ==
    IF \A p \in 0..(A_nt - 1) : Completed("gemm", p)
    THEN A_nt
    ELSE CHOOSE p \in 0..(A_nt - 1) :
             /\ ~Completed("gemm", p)
             /\ \A q \in 0..(p - 1) : Completed("gemm", q)

\* The updates the documentation of gemm promises: panel 0 with beta, then
\* panels 1..nt-1 in order with coefficient 1.
ExpectedUpdates == [p \in 1..A_nt |-> <<p - 1, IF p = 1 THEN beta ELSE 1>>]

RECURSIVE ApplyUpdates(_, _)
ApplyUpdates(seq, c) ==
    IF seq = <<>> THEN c
    ELSE ApplyUpdates(Tail(seq), alpha * PanelProduct(Head(seq)[1]) + Head(seq)[2] * c)

RECURSIVE SumPanels(_)
SumPanels(n) == IF n = 0 THEN 0 ELSE PanelProduct(n - 1) + SumPanels(n - 1)

----------------------------------------------------------------------------
(* gemm: properties *)

\* C1: in every reachable state of the pipeline, of either overload, a
\* Compute(k) task that has started finds the Broadcast(k) task completed.
C1_ComputeAfterBroadcast ==
    \A p \in 0..(A_nt - 1) : Started("gemm", p) => Completed("bcast", p)

C1_Witness ==
    /\ A_nt >= 3
    /\ lookahead >= 1
    /\ Running("gemm", A_nt - 1)

\* C2: Compute tasks run strictly in index order: Compute(k), k >= 1, has
\* started only if Compute(k-1) has completed, and at most one Compute task is
\* running at any time.
C2_ComputeSerialized ==
    /\ \A p \in 1..(A_nt - 1) : Started("gemm", p) => Completed("gemm", p - 1)
    /\ NumRunning("gemm") <= 1

C2_Witness ==
    /\ Running("gemm", 1)
    /\ NumRunning("bcast") = 1

\* C3: with lookahead L, a Broadcast(m) that has started finds Compute(j)
\* completed for every j < m - L, so no started broadcast is more than L panels
\* ahead of the compute frontier.
C3_BroadcastThrottled ==
    \A m \in 0..(A_nt - 1) :
        Started("bcast", m) =>
            /\ \A j \in 0..(m - lookahead - 1) : Completed("gemm", j)
            /\ m <= Frontier + lookahead

C3_Witness ==
    /\ lookahead >= 1
    /\ Running("bcast", lookahead + 2)
    /\ Frontier = 2

\* C4: under a fair scheduler every Broadcast(k) and Compute(k) task eventually
\* completes, the taskwait is passed and the call returns, for every nt and
\* every lookahead, lookahead >= nt included.
C4_PipelineTerminates == <>(pc = "done" /\ AllPanelsDone)

C4_Witness ==
    /\ pc = "done"
    /\ lookahead >= A_nt
    /\ A_nt >= 2
    /\ AllPanelsDone

\* C5: whatever the lookahead, the updates applied to C are, in this order,
\* panel 0 with beta and panels 1..nt-1 with coefficient 1, and the output is
\* the one these updates give: it does not depend on the lookahead.
C5_LookaheadIrrelevant ==
    /\ Len(applied) <= A_nt
    /\ \A p \in 1..Len(applied) : applied[p] = ExpectedUpdates[p]
    /\ pc = "done" => /\ applied = ExpectedUpdates
                      /\ C = ApplyUpdates(ExpectedUpdates, C0)

C5_Witness ==
    /\ pc = "done"
    /\ A_nt >= 3
    /\ lookahead = A_nt - 1
    /\ Len(applied) = A_nt

\* C6: tileUpdateAllOrigin has run only if every Broadcast and Compute task has
\* completed, and the workspace is released only after tileUpdateAllOrigin.
C6_TerminalOrder ==
    /\ originUpdated => AllPanelsDone /\ Taskwait
    /\ workspace = "released" => originUpdated

C6_Witness ==
    /\ workspace = "released"
    /\ originUpdated
    /\ A_nt >= 2
    /\ Completed("gemm", A_nt - 1)

\* C7: Broadcast tasks are serialized in index order: Broadcast(k), k >= 1, has
\* started only if Broadcast(k-1) has completed, and at most one Broadcast task
\* is running at any time.
C7_BroadcastSerialized ==
    /\ \A p \in 1..(A_nt - 1) : Started("bcast", p) => Completed("bcast", p - 1)
    /\ NumRunning("bcast") <= 1

C7_Witness ==
    \E i \in TaskIds : /\ tasks[i].kind = "bcast"
                       /\ tasks[i].site = "main"
                       /\ status[i] = "running"
                       /\ lookahead >= 1

\* C8: beta is applied exactly once, by Compute(0); every later Compute uses
\* coefficient 1; on return C = alpha * sum of the panel products + beta * C0.
C8_BetaOnce ==
    /\ \A p \in 1..Len(applied) : applied[p][2] = (IF applied[p][1] = 0 THEN beta ELSE 1)
    /\ pc = "done" =>
          /\ Cardinality({p \in 1..Len(applied) : applied[p][1] = 0}) = 1
          /\ C = alpha * SumPanels(A_nt) + beta * C0

C8_Witness ==
    /\ pc = "done"
    /\ A_nt >= 2
    /\ beta = 2
    /\ alpha = 2
    /\ C = 2 * SumPanels(A_nt) + 2 * C0

----------------------------------------------------------------------------
(* syrk: vocabulary of the properties *)

CTiles == (0..(C_mt - 1)) \X (0..(C_nt - 1))

UnitsFor(t) == {n \in 1..Len(units) : units[n].out = t}

\* The update the HostTask backend makes to the local lower tile t.
HostTaskUpdates(t) ==
    IF t[1] >= t[2] /\ tileIsLocal(t[1], t[2])
    THEN <<Update(HostTaskUnit(t[1], t[2]).kind, HostTaskUnit(t[1], t[2]).ins)>>
    ELSE <<>>

\* The backend exists in the build.
Available ==
    CASE target = "HostNest" -> ~skipHostNest
      [] target = "HostBatch" -> haveMKL
      [] OTHER -> TRUE

----------------------------------------------------------------------------
(* syrk: properties *)

\* C9: the HostTask backend creates exactly one unit for every local tile
\* C(i, j) with i >= j and none for any other tile; a diagonal unit reads
\* A(j, 0) and writes C(j, j) with the syrk kernel, an off-diagonal unit reads
\* A(i, 0) and A(j, 0) and writes C(i, j) with the gemm kernel.
C9_HostTaskUnits ==
    target = "HostTask" =>
        /\ \A n \in 1..Len(units) :
              LET i == units[n].out[1]
                  j == units[n].out[2]
              IN /\ i >= j
                 /\ tileIsLocal(i, j)
                 /\ i = j => /\ units[n].kind = "syrk"
                             /\ units[n].ins = {<<j, 0>>}
                 /\ i # j => /\ units[n].kind = "gemm"
                             /\ units[n].ins = {<<i, 0>>, <<j, 0>>}
                 /\ ustate[n] \in {"running", "done"} =>
                       /\ \A a \in units[n].ins :
                             [mat |-> "A", tile |-> a, mode |-> "read",
                              loc |-> "host"] \in fetched
                       /\ [mat |-> "C", tile |-> <<i, j>>, mode |-> "write",
                           loc |-> "host"] \in fetched
                 /\ ustate[n] = "done" =>
                       updates[<<i, j>>] = <<Update(units[n].kind, units[n].ins)>>
        /\ \A t \in CTiles : Cardinality(UnitsFor(t)) <= 1
        /\ spc \in {"ht_join", "return", "done"} =>
              \A t \in CTiles :
                  Cardinality(UnitsFor(t)) =
                      (IF t[1] >= t[2] /\ tileIsLocal(t[1], t[2]) THEN 1 ELSE 0)
        /\ spc = "done" =>
              \A t \in CTiles :
                  Len(updates[t]) =
                      (IF t[1] >= t[2] /\ tileIsLocal(t[1], t[2]) THEN 1 ELSE 0)

C9_Witness ==
    /\ target = "HostTask"
    /\ spc = "done"
    /\ C_nt = 3
    /\ tileIsLocal(0, 0)
    /\ tileIsLocal(1, 0)
    /\ ~tileIsLocal(1, 1)
    /\ updates[<<2, 0>>] = <<Update("gemm", {<<2, 0>>, <<0, 0>>})>>
    /\ updates[<<2, 2>>] = <<Update("syrk", {<<2, 0>>})>>

\* C10 as stated: whichever of the four backends is requested, on return the
\* updates made to the tiles of C are those of the HostTask backend.
C10_AnyBackendAgrees ==
    spc = "done" => \A t \in CTiles : updates[t] = HostTaskUpdates(t)

\* C10, amended: every backend that exists in the build returns normally
\* having made exactly the updates of the HostTask backend: the same tiles,
\* each once, with the same kernel and the same input tiles; a backend that
\* does not exist in the build raises NotSupported and updates no tile.
C10_AvailableBackendsAgree ==
    spc = "done" =>
        /\ result = (IF Available THEN "ok" ELSE "NotSupported")
        /\ Available => \A t \in CTiles : updates[t] = HostTaskUpdates(t)
        /\ ~Available => \A t \in CTiles : updates[t] = <<>>

C10_Witness ==
    /\ target = "Devices"
    /\ spc = "done"
    /\ result = "ok"
    /\ C_nt = 3
    /\ num_devices = 2
    /\ tileIsLocal(1, 0) /\ tileDevice(1, 0) = 1
    /\ tileIsLocal(0, 0) /\ tileDevice(0, 0) = 0
    /\ updates[<<1, 0>>] = <<Update("gemm", {<<1, 0>>, <<0, 0>>})>>
    /\ updates[<<2, 2>>] = <<Update("syrk", {<<2, 0>>})>>

\* C11: no syrk backend fetches for writing, gives a unit as its output, puts
\* in a batch as the output of an entry, or updates with a kernel, a tile
\* C(i, j) with i < j: only tiles of the lower triangle are touched.
C11_LowerTriangleOnly ==
    routine = "syrk" =>
        /\ \A f \in fetched : f.mode = "write" => f.tile[1] >= f.tile[2]
        /\ \A n \in 1..Len(units) : units[n].out[1] >= units[n].out[2]
        /\ \A b \in batchCalls : \A e \in b.entries : e.c[1] >= e.c[2]
        /\ \A t \in DOMAIN updates : updates[t] # <<>> => t[1] >= t[2]

\* A HostNest call on a grid with a local tile C(0, 1) has returned, having
\* updated C(1, 0) and left C(0, 1) alone.
C11_Witness ==
    /\ target = "HostNest"
    /\ spc = "done"
    /\ result = "ok"
    /\ C_nt >= 2
    /\ tileIsLocal(0, 1)
    /\ Len(updates[<<1, 0>>]) = 1
    /\ updates[<<0, 1>>] = <<>>

\* C18: a call of a syrk backend that the build does not have (HostNest when
\* it is skipped, HostBatch without MKL) ends with NotSupported as soon as the
\* backend is entered: no tile is ever fetched, ticked, released or computed
\* and no unit is created.
C18_UnavailableFailsFast ==
    (routine = "syrk" /\ ~Available) =>
        /\ fetched = {}
        /\ released = {}
        /\ batchCalls = {}
        /\ units = <<>>
        /\ \A r \in DOMAIN reads : reads[r] = 0 /\ ticks[r] = 0
        /\ \A t \in DOMAIN updates : updates[t] = <<>>
        /\ \A d \in DOMAIN devpc : devpc[d] = "none"
        /\ spc \in {"dispatch", "entry", "done"}
        /\ spc = "done" => result = "NotSupported"
        /\ spc # "done" => result = "none"

\* A HostBatch call in a build without MKL, on a matrix with local tiles, has
\* ended with NotSupported.
C18_Witness ==
    /\ target = "HostBatch"
    /\ ~haveMKL
    /\ tileIsLocal(0, 0)
    /\ spc = "done"
    /\ result = "NotSupported"
    /\ raised.line = 373

\* The tiles of C that the call has updated with a kernel.
UpdatedTiles == {t \in DOMAIN updates : updates[t] # <<>>}

\* A syrk call has returned normally and its tile release strategy makes the
\* backends tick.
SyrkSucceededTicking ==
    /\ routine = "syrk"
    /\ spc = "done"
    /\ result = "ok"
    /\ call_tile_tick

\* C20 (as stated): over one successful syrk call with tile release enabled,
\* the number of tileTick calls on every A(r, 0) equals the number of times
\* it was fetched for reading.
C20_TicksMatchFetches ==
    SyrkSucceededTicking => \A r \in DOMAIN ticks : ticks[r] = reads[r]

\* C20 (amended): over one successful syrk call with tile release enabled,
\* the number of tileTick calls on every A(r, 0) equals the number of operand
\* positions it takes in the updates of the call: for each updated tile
\* C(i, j) one as A(i, 0) and one as A(j, 0), hence two for a diagonal tile.
C20_TicksMatchOperands ==
    SyrkSucceededTicking =>
        \A r \in DOMAIN ticks : ticks[r] = Uses(UpdatedTiles, r)

\* A successful call has updated the local tiles C(1, 0) and C(1, 1): A(1, 0)
\* has been ticked three times.
C20_Witness ==
    /\ SyrkSucceededTicking
    /\ C_nt >= 2
    /\ tileIsLocal(1, 0)
    /\ tileIsLocal(1, 1)
    /\ {<<1, 0>>, <<1, 1>>} \subseteq UpdatedTiles
    /\ ticks[1] >= 3
    /\ ticks[1] # reads[1]

\* C12: when a syrk backend call has returned, normally or by raising, every
\* unit it created has ended (its kernel done or its exception caught) and
\* every device task has ended: none is pending or running.
C12_JoinBeforeReturn ==
    (routine = "syrk" /\ spc = "done") =>
        /\ \A n \in 1..Len(units) : ustate[n] \in {"done", "failed"}
        /\ \A d \in DOMAIN devpc : devpc[d] \in {"none", "done"}

\* A host call that created three units, one of which failed, has raised.
C12_Witness ==
    /\ routine = "syrk"
    /\ spc = "done"
    /\ result = "exception"
    /\ Len(units) = 3
    /\ \E n \in 1..Len(units) : ustate[n] = "failed"
    /\ \E n \in 1..Len(units) : ustate[n] = "done"

\* The local tiles of the lower triangle: the tiles a call has to update.
LocalLower == {t \in CTiles : t[1] >= t[2] /\ tileIsLocal(t[1], t[2])}

\* A host call in which the kernel of one unit throws.
HostFault ==
    /\ routine = "syrk"
    /\ target \in {"HostTask", "HostNest"}
    /\ Available
    /\ faulty \in LocalLower

\* C13: when the kernel of one unit of a HostTask or HostNest call throws,
\* the call goes on to its join: it raises nothing before, and when it has
\* ended it has raised the failure, once, by the throw that follows the join;
\* every unit has been run, and every local lower tile but the failed one has
\* been updated once, with the update of a call without failure.
C13_HostFailureAggregated ==
    HostFault =>
        /\ spc # "aborted"
        /\ spc # "done" => result = "none" /\ raised.line = 0
        /\ spc = "done" =>
              /\ result = "exception"
              /\ raised = RaisedAfterJoin(target, err)
              /\ \A t \in LocalLower :
                    /\ Cardinality(UnitsFor(t)) = 1
                    /\ \A n \in UnitsFor(t) :
                          ustate[n] = IF t = faulty THEN "failed" ELSE "done"
              /\ \A t \in LocalLower \ {faulty} : updates[t] = HostTaskUpdates(t)
              /\ updates[faulty] = <<>>

\* A HostNest call on a 2 x 2 grid, all local, in which the kernel of C(1, 0)
\* throws, has raised after updating the two other tiles.
C13_Witness ==
    /\ HostFault
    /\ target = "HostNest"
    /\ C_nt = 2
    /\ faulty = <<1, 0>>
    /\ Cardinality(LocalLower) = 3
    /\ spc = "done"
    /\ result = "exception"
    /\ Cardinality(UpdatedTiles) = 2

\* C14: in a Devices call in which the kernel of a tile throws, the failure
\* is caught inside the device task (it never leaves the task, which would end
\* the program), and the call raises it only after every device task has
\* ended; this on the single-tile path too.
C14_DeviceFailureCaptured ==
    (routine = "syrk" /\ target = "Devices" /\ faulty \in LocalLower) =>
        /\ result # "terminate"
        /\ raised.line # 0 => \A d \in DOMAIN devpc : devpc[d] \in {"none", "done"}
        /\ spc = "done" => result = "slate_error" /\ raised = RaisedAfterJoin(target, err)

\* The condition the call raises if the kernel of tile t, and no other, throws.
RaisedFor(t) ==
    RaisedAfterJoin(target,
        CASE target = "Devices" -> 723
          [] target = "HostTask" -> HostTaskUnit(t[1], t[2]).catch
          [] target = "HostNest" ->
                IF t[1] = t[2] THEN HostNestDiagUnit(t[1]).catch
                ELSE HostNestForUnit(t[1], t[2]).catch
          [] target = "HostBatch" -> HostBatchDiagUnit(t[1]).catch)

\* C15: the condition a syrk backend raises after the join identifies the
\* unit that failed: had the kernel of a tile of another unit (another tile
\* on the host targets, a tile of another device on Devices) thrown instead,
\* the condition raised would differ.
C15_FailureIdentifiesUnit ==
    (routine = "syrk" /\ spc = "done" /\ faulty \in LocalLower /\ raised.line # 0) =>
        \A t \in LocalLower :
            (/\ t # faulty
             /\ target = "Devices" => tileDevice(t[1], t[2]) # tileDevice(faulty[1], faulty[2])
             /\ target = "HostBatch" => t[1] = t[2])
            => RaisedFor(t) # raised

\* The call has made no tile access and created no unit.
NoTileTouched ==
    /\ fetched = {}
    /\ released = {}
    /\ batchCalls = {}
    /\ units = <<>>
    /\ \A r \in DOMAIN reads : reads[r] = 0 /\ ticks[r] = 0
    /\ \A t \in DOMAIN updates : updates[t] = <<>>
    /\ \A d \in DOMAIN devpc : devpc[d] = "none"

\* C16: once the syrk dispatcher has run, it has entered a backend if and
\* only if C is Lower and the scalar type is real or neither C nor A is
\* ConjTrans; for every other call it has thrown, the call has ended, no
\* backend was entered and no tile was fetched, ticked or released.
C16_DispatcherAccepts ==
    (routine = "syrk" /\ spc # "dispatch") =>
        LET accepted == /\ uplo = "Lower"
                        /\ (is_real \/ (opC # "ConjTrans" /\ opA # "ConjTrans"))
        IN /\ accepted <=> invoked = <<<<"syrk", target>>>>
           /\ ~accepted =>
                 /\ invoked = <<>>
                 /\ spc = "done"
                 /\ result = "exception"
                 /\ raised.line = 33
                 /\ NoTileTouched

\* A complex call with C Lower and NoTrans but A ConjTrans, on a matrix with
\* local tiles, has been rejected.
C16_Witness ==
    /\ routine = "syrk"
    /\ uplo = "Lower"
    /\ ~is_real
    /\ spc = "done"
    /\ opC = "NoTrans"
    /\ opA = "ConjTrans"
    /\ result = "exception"
    /\ invoked = <<>>
    /\ tileIsLocal(0, 0)

\* The backends the dispatcher of the routine has called, in order.
DispatcherCalls == SelectSeq(invoked, LAMBDA e : e[1] = routine)

\* C17: once the dispatcher of an accepted call has run (the switch of gemm,
\* syrk<target>, trsmA<target>), it has called exactly one backend, the one
\* of the target selected, Target::Host standing for HostTask in gemm; and
\* when it hands over to the backend, no tile has been fetched, ticked or
\* released, no unit or task created and no workspace reserved.
C17_OneBackendInvoked ==
    /\ (routine = "gemm" /\ pc # "dispatch") =>
          /\ DispatcherCalls =
                <<<<"gemm", IF optTarget = "Host" THEN "HostTask" ELSE optTarget>>>>
          /\ target = DispatcherCalls[1][2]
          /\ pc = "begin" => tasks = <<>> /\ workspace = "none"
    /\ (routine = "syrk" /\ spc # "dispatch"
            /\ uplo = "Lower" /\ (is_real \/ (opC # "ConjTrans" /\ opA # "ConjTrans"))) =>
          /\ DispatcherCalls = <<<<"syrk", target>>>>
          /\ invoked = DispatcherCalls
          /\ spc = "entry" => NoTileTouched
    /\ (routine = "trsmA" /\ spc # "dispatch") =>
          /\ DispatcherCalls = <<<<"trsmA", target>>>>
          /\ spc = "entry" => NoTileTouched

\* A gemm call with Option::Target = Host has completed: the switch called
\* the HostTask instantiation and no other.
C17_Witness ==
    /\ routine = "gemm"
    /\ optTarget = "Host"
    /\ pc = "done"
    /\ invoked = <<<<"gemm", "HostTask">>>>
    /\ A_nt >= 2

\* C19: a call with the Devices target on matrices without a device (gemm,
\* syrk or trsmA) fails with an assertion or an exception before any tile
\* access and any workspace operation: it reserves no workspace, creates no
\* task or unit, touches no tile, and it never ends normally.
C19_ZeroDevicesFailsFirst ==
    /\ (routine = "gemm" /\ target = "Devices" /\ num_devices = 0) =>
          /\ workspace = "none"
          /\ tasks = <<>>
          /\ pc # "done"
    /\ (routine \in {"syrk", "trsmA"} /\ target = "Devices" /\ num_devices = 0) =>
          /\ NoTileTouched
          /\ result \in {"none", "assert", "exception"}
          /\ spc \notin {"dispatch", "entry"} => result \in {"assert", "exception"}

\* C21: Option::TileReleaseStrategy controls the decrements on every syrk
\* backend. With None no backend calls tileTick or tileRelease; with Internal
\* or All every backend that has updated a tile has ticked its input tiles
\* when the call returns.
C21_StrategyControlsTicks ==
    (routine = "syrk" /\ Available) =>
        /\ tile_release_strategy = "None" =>
              /\ released = {}
              /\ \A r \in DOMAIN ticks : ticks[r] = 0
        /\ (tile_release_strategy \in {"Internal", "All"} /\ spc = "done"
                /\ result = "ok") =>
              \A t \in UpdatedTiles : ticks[t[1]] > 0 /\ ticks[t[2]] > 0

\* The data of a tile as it is stored, and the effect of an operator on a
\* factor of a product: t is transposition, c conjugation (none if real).
Stored(x) == [tile |-> x, t |-> FALSE, c |-> FALSE]

ApplyOp(op, f) ==
    [tile |-> f.tile,
     t |-> f.t # (op # "NoTrans"),
     c |-> f.c # (op = "ConjTrans" /\ ~is_real)]

\* The product A(i, 0) * A(j, 0)^T of the logical tiles, as tile::gemm(alpha,
\* A(i, 0), transpose(A(j, 0)), beta, C(i, j)) of HostTask computes it.
HostTaskProduct ==
    <<ApplyOp(opA, Stored("Ai0")), ApplyOp("Trans", ApplyOp(opA, Stored("Aj0")))>>

\* The product a batched gemm with arguments g adds to the logical tile
\* C(i, j): the stored tile gets op(a) * op(b), and the logical tile is op(C)
\* of the stored one, which reverses the factors.
BatchProduct(g) ==
    LET first == ApplyOp(g.opA, Stored(g.a))
        second == ApplyOp(g.opB, Stored(g.b))
    IN IF opC = "NoTrans" THEN <<first, second>>
       ELSE <<ApplyOp(opC, second), ApplyOp(opC, first)>>

\* m and n are the dimensions of the stored C(i, j), and each leading
\* dimension is that of the tile passed with it.
BatchShapeConsistent(g) ==
    /\ g.m = IF opC = "NoTrans" THEN "mb" ELSE "nb"
    /\ g.n = IF opC = "NoTrans" THEN "nb" ELSE "mb"
    /\ g.lda = g.a
    /\ g.ldb = g.b

\* C22: for every operators of C and A and scalar type the dispatcher accepts,
\* every batched gemm issued by HostBatch or Devices for off-diagonal tiles
\* adds to the logical tile C(i, j) the product A(i, 0) * A(j, 0)^T that the
\* HostTask kernel adds, with consistent dimensions and leading dimensions.
C22_SwapIsIdentity ==
    routine = "syrk" =>
        \A b \in batchCalls :
            b.kind = "gemm" =>
                /\ BatchProduct(b.args) = HostTaskProduct
                /\ BatchShapeConsistent(b.args)

\* A complex call with C Trans and A NoTrans has returned after a batched
\* gemm with swapped operands.
C22_Witness ==
    /\ routine = "syrk"
    /\ spc = "done"
    /\ result = "ok"
    /\ ~is_real
    /\ opC = "Trans"
    /\ opA = "NoTrans"
    /\ \E b \in batchCalls : b.kind = "gemm" /\ b.args.a = "Aj0" /\ b.args.opB = "Trans"

\* The rows r of the tiles A(r, 0) that a kernel call on a queue reads.
KernelReads(kc) ==
    UNION {IF kc.kind = "gemm" THEN {e.a[1], e.b[1]} ELSE {e.a[1]} : e \in kc.entries}

\* C23: in the Devices backend, whenever the task of a device releases or
\* ticks a tile A(r, 0), no kernel call that reads A(r, 0) is on the queue of
\* that device without a later queue->sync(): every kernel using the tile on
\* the device was issued before the last synchronization.
C23_ReleaseAfterSync ==
    [][(routine = "syrk" /\ target = "Devices") =>
          \A d \in DOMAIN devpc :
              devpc'[d] # devpc[d] =>
                  \A kc \in queue[d] : \A r \in KernelReads(kc) :
                      /\ ticks'[r] = ticks[r]
                      /\ (<<r, d>> \in released') => (<<r, d>> \in released)]_vars

\* The task of a device that issued a batched gemm and a batched syrk has
\* synchronized, then released and ticked the tiles they read.
C23_Witness ==
    /\ routine = "syrk"
    /\ target = "Devices"
    /\ \E d \in DOMAIN devpc :
          /\ devpc[d] = "done"
          /\ queue[d] = {}
          /\ \E b \in batchCalls : b.loc = d /\ b.kind = "gemm"
          /\ \E b \in batchCalls : b.loc = d /\ b.kind = "syrk"
          /\ \E r \in DOMAIN ticks : ticks[r] > 0 /\ <<r, d>> \in released

\* The batched kernel calls the task of a device has issued.
BatchCallsOn(d) == {b \in batchCalls : b.loc = d}

BatchNames == {"gemm00", "gemm10", "syrk0", "syrk1"}

\* Each device task has issued at most four batched calls, one at most of
\* each of the four kinds, none with an empty batch.
AtMostFourBatches ==
    \A d \in DOMAIN devpc :
        /\ Cardinality(BatchCallsOn(d)) <= 4
        /\ \A b \in BatchCallsOn(d) : b.entries # {} /\ b.name \in BatchNames
        /\ \A b1, b2 \in BatchCallsOn(d) : b1.name = b2.name => b1 = b2

\* C24 (as stated): each device task of the Devices backend issues at most
\* four batched kernel calls, each only when its batch is not empty, and each
\* is followed by a synchronization of the queue before the next batched call
\* or fetch: two calls are never on the queue together, and the diagonal
\* tiles are fetched only when no batched gemm is on the queue.
C24_SyncAfterEachBatch ==
    (routine = "syrk" /\ target = "Devices") =>
        /\ AtMostFourBatches
        /\ \A d \in DOMAIN devpc :
              /\ Cardinality(queue[d]) <= 1
              /\ devpc[d] \in {"syrk0", "syrk1", "sync"} =>
                    \A kc \in queue[d] : kc.kind # "gemm"

\* C24 (amended): each device task of the Devices backend issues at most four
\* batched kernel calls, each only when its batch is not empty, all on the
\* compute queue of the device, and one synchronization of that queue follows
\* the last of them, before any tile is released or ticked: until then every
\* call issued is still on the queue, after it none is.
C24_OneSyncAfterBatches ==
    (routine = "syrk" /\ target = "Devices" /\ C_nt >= 2) =>
        /\ AtMostFourBatches
        /\ \A d \in DOMAIN devpc :
              {kc.name : kc \in queue[d]} =
                  IF devpc[d] \in {"release", "done"} THEN {}
                  ELSE {b.name : b \in BatchCallsOn(d)}

\* The task of a device has issued the four batched calls and has ended.
C24_Witness ==
    /\ routine = "syrk"
    /\ target = "Devices"
    /\ \E d \in DOMAIN devpc :
          /\ devpc[d] = "done"
          /\ {b.name : b \in BatchCallsOn(d)} = BatchNames
          /\ queue[d] = {}

\* The shape of the tile C(i, j) when only the last block row and the last
\* block column may differ in size from the others: whether its row is the
\* last one, whether its column is.
TileShape(t) == <<t[1] = C_mt - 1, t[2] = C_nt - 1>>

\* The entries of the batched calls of a device that have C(i, j) as output.
BatchEntriesFor(d, t) ==
    UNION {{<<b.name, e>> : e \in {x \in b.entries : x.c = t}} : b \in BatchCallsOn(d)}

\* C25: in the Devices backend every batched kernel call holds tiles of one
\* shape only (a tile of the last block row or column is never with an
\* interior tile), and when the task of a device has ended its batches hold
\* each lower tile the device owns exactly once and no other tile.
C25_BatchesUniformAndComplete ==
    (routine = "syrk" /\ target = "Devices") =>
        /\ \A b \in batchCalls : \A e1, e2 \in b.entries :
              TileShape(e1.c) = TileShape(e2.c)
        /\ \A d \in DOMAIN devpc :
              /\ \A b \in BatchCallsOn(d) : \A e \in b.entries :
                    /\ e.c \in LowerRange
                    /\ tileIsLocal(e.c[1], e.c[2])
                    /\ tileDevice(e.c[1], e.c[2]) = d
                    /\ Cardinality(BatchEntriesFor(d, e.c)) = 1
              /\ (devpc[d] = "done" /\ C_nt >= 2) =>
                    \A t \in LowerRange :
                        (tileIsLocal(t[1], t[2]) /\ tileDevice(t[1], t[2]) = d)
                            => Cardinality(BatchEntriesFor(d, t)) = 1

\* On a 3 x 3 grid held by one device, the task of the device has ended after
\* four batches that hold the six lower tiles.
C25_Witness ==
    /\ routine = "syrk"
    /\ target = "Devices"
    /\ C_nt = 3
    /\ \A t \in LowerRange : tileIsLocal(t[1], t[2]) /\ tileDevice(t[1], t[2]) = 0
    /\ devpc[0] = "done"
    /\ Cardinality(BatchCallsOn(0)) = 4
    /\ \A t \in LowerRange : Cardinality(BatchEntriesFor(0, t)) = 1

\* C26: a Devices call on a grid of one tile issues no batched kernel call
\* and creates no per-device task. If the tile is local, the only task is the
\* one of the tile, on the tile's device, and it issues one direct blas::syrk
\* on the queue of that device; if the tile is not local, the call issues no
\* kernel and touches no tile.
C26_SingleTileDirect ==
    (routine = "syrk" /\ target = "Devices" /\ C_nt = 1) =>
        /\ batchCalls = {}
        /\ \A d \in DOMAIN devpc :
              /\ devpc[d] \in {"none", "single_fetch", "single_syrk", "single_sync",
                               "single_release", "done"}
              /\ devpc[d] # "none" => tileIsLocal(0, 0) /\ d = tileDevice(0, 0)
              /\ \A kc \in queue[d] :
                    /\ kc.name = "blas::syrk"
                    /\ d = tileDevice(0, 0)
        /\ Len(updates[<<0, 0>>]) <= 1
        /\ tileIsLocal(0, 0) =>
              /\ \A f \in fetched : f.loc = tileDevice(0, 0)
              /\ (spc = "done" /\ result = "ok") =>
                    updates[<<0, 0>>] = <<Update("syrk", {<<0, 0>>})>>
        /\ ~tileIsLocal(0, 0) => NoTileTouched /\ queue = [d \in DOMAIN devpc |-> {}]

\* Two devices, one tile, local on device 1: the call has returned after one
\* direct kernel call on device 1 and no task on device 0.
C26_Witness ==
    /\ routine = "syrk"
    /\ target = "Devices"
    /\ C_nt = 1
    /\ num_devices = 2
    /\ tileIsLocal(0, 0)
    /\ tileDevice(0, 0) = 1
    /\ spc = "done"
    /\ result = "ok"
    /\ devpc = [d \in {0, 1} |-> IF d = 1 THEN "done" ELSE "none"]
    /\ Len(updates[<<0, 0>>]) = 1


\* The units of the diagonal phase and of the off-diagonal phase of a call.
DiagUnits == {n \in 1..Len(units) : units[n].kind = "syrk"}

OffDiagUnits == {n \in 1..Len(units) : units[n].kind = "gemm"}

\* The tiles the collapsed loop has passed when it stands at (j, i).
PassedBy(j, i) ==
    {t \in CTiles : t[2] < j \/ (t[2] = j /\ t[1] < i)}

\* C27: HostNest has two phases. Every diagonal unit has ended before any
\* off-diagonal tile is fetched or computed; the off-diagonal loop goes over
\* the full range of (j, i), and the iterations it has passed have made a unit
\* for the local tiles with i > j and for no other tile.
C27_HostNestTwoPhases ==
    (routine = "syrk" /\ target = "HostNest") =>
        /\ (\/ OffDiagUnits # {}
            \/ \E f \in fetched : f.mat = "C" /\ f.tile[1] # f.tile[2]
            \/ \E t \in CTiles : t[1] # t[2] /\ updates[t] # <<>>)
              => \A n \in DiagUnits : ustate[n] \in {"done", "failed"}
        /\ spc \in {"hn_diag", "hn_diag_join"} => OffDiagUnits = {}
        /\ spc = "hn_for" =>
              /\ cur[1] \in 0..(C_nt - 1)
              /\ cur[2] \in 0..(C_mt - 1)
              /\ {units[n].out : n \in OffDiagUnits} =
                     {t \in PassedBy(cur[1], cur[2]) :
                         t[1] > t[2] /\ tileIsLocal(t[1], t[2])}
        /\ spc \in {"hn_for_join", "return", "done"} /\ units # <<>> =>
              {units[n].out : n \in OffDiagUnits} =
                  {t \in LocalLower : t[1] > t[2]}
        /\ \A n \in OffDiagUnits : \A m \in OffDiagUnits :
              units[n].out = units[m].out => n = m

\* The loop stands at (j, i) = (1, 0), above the diagonal, where it makes no
\* unit; the diagonal units have ended and the unit of C(1, 0) is computing.
C27_Witness ==
    /\ routine = "syrk"
    /\ target = "HostNest"
    /\ spc = "hn_for"
    /\ cur = <<1, 0>>
    /\ DiagUnits # {}
    /\ \A n \in DiagUnits : ustate[n] = "done"
    /\ \E n \in OffDiagUnits : units[n].out = <<1, 0>> /\ ustate[n] = "running"


\* The local tiles strictly below the diagonal.
LocalStrictlyLower == {t \in LocalLower : t[1] > t[2]}

\* The ticks of A(r, 0) made by the diagonal units that have ended.
DiagonalTicks(r) ==
    2 * Cardinality({n \in DiagUnits : units[n].out = <<r, r>> /\ ustate[n] = "done"})

\* C28: in HostBatch every local strictly lower tile is fetched before the
\* batched call; the call is made once, over these tiles and no other, if
\* there is at least one, and is not made otherwise; the input tiles of the
\* batch are ticked only after the call has returned.
C28_HostBatchOneCall ==
    (routine = "syrk" /\ target = "HostBatch" /\ HostBatchAvailable) =>
        /\ spc \in {"entry", "hb_diag", "hb_diag_join", "hb_fetch"} =>
              /\ batchCalls = {}
              /\ \A f \in fetched : f.mat = "C" => f.tile[1] = f.tile[2]
              /\ \A t \in LocalStrictlyLower : updates[t] = <<>>
        /\ spc = "hb_batch" =>
              /\ batchCalls = {}
              /\ \A t \in LocalStrictlyLower :
                    /\ [mat |-> "C", tile |-> t, mode |-> "write", loc |-> "host"] \in fetched
                    /\ [mat |-> "A", tile |-> <<t[1], 0>>, mode |-> "read", loc |-> "host"]
                           \in fetched
                    /\ [mat |-> "A", tile |-> <<t[2], 0>>, mode |-> "read", loc |-> "host"]
                           \in fetched
        /\ spc \notin {"return", "done"} =>
              \A r \in DOMAIN ticks : ticks[r] = DiagonalTicks(r)
        /\ (spc \in {"hb_tick", "return"} \/ (spc = "done" /\ result = "ok")) =>
              /\ LocalStrictlyLower = {} => batchCalls = {}
              /\ LocalStrictlyLower # {} =>
                    /\ Cardinality(batchCalls) = 1
                    /\ \A b \in batchCalls :
                          /\ b.loc = "host"
                          /\ b.name = "cblas_gemm_batch"
                          /\ {e.c : e \in b.entries} = LocalStrictlyLower
                          /\ Cardinality(b.entries) = Cardinality(LocalStrictlyLower)
                          /\ \A e \in b.entries :
                                e.a = <<e.c[1], 0>> /\ e.b = <<e.c[2], 0>>
                    /\ \A t \in LocalStrictlyLower : Len(updates[t]) = 1
              /\ \A t \in CTiles \ LocalStrictlyLower : t[1] # t[2] => updates[t] = <<>>
        /\ (spc = "return" \/ (spc = "done" /\ result = "ok")) =>
              \A r \in DOMAIN ticks :
                  ticks[r] = DiagonalTicks(r) + Uses(LocalStrictlyLower, r)

\* The batched call over three local strictly lower tiles has returned and
\* the tick loop has not run yet.
C28_Witness ==
    /\ routine = "syrk"
    /\ target = "HostBatch"
    /\ spc = "hb_tick"
    /\ Cardinality(LocalStrictlyLower) = 3
    /\ \E b \in batchCalls : Cardinality(b.entries) = 3
    /\ \A r \in DOMAIN ticks : ticks[r] = DiagonalTicks(r)


\* The memory the kernels that update the tile t of C run on.
KernelMemory(t) == IF target = "Devices" THEN tileDevice(t[1], t[2]) ELSE "host"

\* The tiles a kernel call reads and writes are fetched in the memory loc.
FetchedFor(ins, out, loc) ==
    /\ [mat |-> "C", tile |-> out, mode |-> "write", loc |-> loc] \in fetched
    /\ \A a \in ins : [mat |-> "A", tile |-> a, mode |-> "read", loc |-> loc] \in fetched

\* C29: on every syrk backend a kernel call, single-tile or batched, is issued
\* only after each tile it reads has been fetched for reading and the tile it
\* writes has been fetched for writing in the memory the kernel runs on: the
\* host, or the device of the task. Every entry of a batch of a device task is
\* made of tiles fetched on that device.
C29_FetchedBeforeKernel ==
    routine = "syrk" =>
        /\ \A t \in CTiles : \A u \in 1..Len(updates[t]) :
              FetchedFor(updates[t][u].ins, t, KernelMemory(t))
        /\ \A b \in batchCalls : \A e \in b.entries :
              FetchedFor(EntryIns(b.kind, e), e.c, b.loc)
        /\ \A d \in DOMAIN queue : \A kc \in queue[d] : \A e \in kc.entries :
              FetchedFor(EntryIns(kc.kind, e), e.c, d)
        /\ \A n \in 1..Len(units) : ustate[n] \in {"running", "done", "failed"} =>
              FetchedFor(units[n].ins, units[n].out, "host")

\* On device 1 the two gemm batches have been issued on fetched tiles, and
\* the diagonal tiles are not fetched on it yet.
C29_Witness ==
    /\ routine = "syrk"
    /\ target = "Devices"
    /\ C_nt = 3
    /\ 1 \in DOMAIN devpc
    /\ devpc[1] = "fetch_syrk"
    /\ Cardinality(BatchCallsOn(1)) = 2
    /\ \A f \in fetched : f.mat = "C" /\ f.loc = 1 => f.tile[1] # f.tile[2]


\* The last panel the lookahead loop sends: min(lookahead, nt - 1).
LastLookahead == IF lookahead < A_nt - 1 THEN lookahead ELSE A_nt - 1

\* The tasks of the lookahead loop.
LookaheadTasks == {i \in TaskIds : tasks[i].site = "lookahead"}

\* C30: broadcasts can get ahead of computation by the lookahead. The task
\* Broadcast(p) for 1 <= p <= min(lookahead, nt - 1) is made by the lookahead
\* loop, names no gemm item in its dependences and depends on no Compute
\* task: once Broadcast(p - 1) has completed it may start, whatever the state
\* of Compute(0). So Broadcast(0)..Broadcast(min(lookahead, nt - 1)) can all
\* complete before Compute(0) starts.
C30_BroadcastsGetAhead ==
    routine = "gemm" =>
        /\ \A i \in LookaheadTasks :
              /\ tasks[i].kind = "bcast"
              /\ tasks[i].panel \in 1..LastLookahead
              /\ \A p \in 0..(A_nt - 1) : gemm(p) \notin tasks[i].din \cup tasks[i].dout
              /\ \A j \in 1..(i - 1) : tasks[j].kind = "gemm" =>
                    ~DependsOn(tasks[i], tasks[j])
              /\ (status[i] = "created" /\ Completed("bcast", tasks[i].panel - 1)) =>
                    Ready(i)
        /\ pc \notin {"dispatch", "begin", "bcast0", "lookahead"} =>
              {tasks[i].panel : i \in LookaheadTasks} = 1..LastLookahead
        /\ \A p \in 1..LastLookahead : \A i \in TaskIds :
              tasks[i].kind = "bcast" /\ tasks[i].panel = p => i \in LookaheadTasks

\* Four panels and a lookahead of 2: Broadcast(0), Broadcast(1) and
\* Broadcast(2) have completed, Compute(0) has been created and has not
\* started.
C30_Witness ==
    /\ routine = "gemm"
    /\ A_nt = 4
    /\ lookahead = 2
    /\ \A p \in 0..LastLookahead : Completed("bcast", p)
    /\ \E i \in TaskIds : tasks[i].kind = "gemm" /\ tasks[i].panel = 0
    /\ ~Started("gemm", 0)

\* With a lookahead beyond the last panel, every broadcast of the call has
\* completed and Compute(0) has not started.
C30_WitnessAllPanels ==
    /\ routine = "gemm"
    /\ A_nt = 3
    /\ lookahead = 4
    /\ \A p \in 0..(A_nt - 1) : Completed("bcast", p)
    /\ ~Started("gemm", 0)


\* The tasks of a kind and a panel.
TasksOf(kind, p) == {i \in TaskIds : tasks[i].kind = kind /\ tasks[i].panel = p}

\* internal::gemmPrep of a panel is running.
Preparing(p) == \E i \in TasksOf("bcast", p) : status[i] = "prep"

\* internal::gemmExec of a panel is running.
Executing(p) == \E i \in TasksOf("gemm", p) : status[i] = "running"

\* C31: in the Devices pipeline with lookahead >= 1 the prepare step of panel
\* p+1 overlaps the execute step of panel p: neither task depends on the
\* other, and while gemmExec of panel p runs, the task that prepares panel
\* p+1, once created, is never held back. So gemmPrep of panel p+1 can run
\* while gemmExec of panel p runs.
C31_PrepareOverlapsExecute ==
    (routine = "gemm" /\ target = "Devices" /\ lookahead >= 1) =>
        \A p \in 0..(A_nt - 2) :
            \A i \in TasksOf("gemm", p) : \A j \in TasksOf("bcast", p + 1) :
                /\ ~DependsOn(tasks[i], tasks[j])
                /\ ~DependsOn(tasks[j], tasks[i])
                /\ (status[i] = "running" /\ status[j] = "created") => Ready(j)

\* Three panels and a lookahead of 1: gemmPrep of panel 2, in a task of the
\* main loop, is running while gemmExec of panel 1 is running.
C31_Witness ==
    /\ routine = "gemm"
    /\ target = "Devices"
    /\ A_nt = 3
    /\ lookahead = 1
    /\ Preparing(2)
    /\ Executing(1)


\* internal::gemmPrep of a panel has started.
PrepStarted(p) == \E i \in TasksOf("bcast", p) : status[i] \in {"prep", "done"}

\* C32: in the Devices pipeline with lookahead L, while gemmExec of panel p
\* runs, the slot p mod (L+1) of gemmBatch holds the arguments of panel p:
\* gemmPrep of panel p has completed before gemmExec of panel p starts, and
\* gemmPrep of panel p+L+1, which fills the same slot, starts only after
\* gemmExec of panel p has completed.
C32_SlotHeldDuringExecute ==
    (routine = "gemm" /\ target = "Devices") =>
        \A p \in 0..(A_nt - 1) :
            /\ Started("gemm", p) => Completed("bcast", p)
            /\ Executing(p) => gemmBatch[SlotOf(p)] = p
            /\ PrepStarted(p + lookahead + 1) =>
                  /\ SlotOf(p + lookahead + 1) = SlotOf(p)
                  /\ Completed("gemm", p)

\* Four panels and a lookahead of 1: gemmExec of panel 2 runs on slot 0,
\* which held panel 0 before, while gemmPrep of panel 3 fills slot 1.
C32_Witness ==
    /\ routine = "gemm"
    /\ target = "Devices"
    /\ A_nt = 4
    /\ lookahead = 1
    /\ Executing(2)
    /\ Preparing(3)
    /\ gemmBatch = [s \in {0, 1} |-> IF s = 0 THEN 2 ELSE 3]


\* The master thread has created every task of the call.
AllTasksCreated == pc \in {"taskwait", "updateOrigin", "release", "done"}

\* C33: for every nt >= 1 and every lookahead >= 0, below, equal to or above
\* nt, the pipeline creates one Broadcast task and one Compute task for each
\* panel 0..nt-1, never two of a kind for a panel, and no task for a panel
\* outside 0..nt-1.
C33_OneTaskPerPanel ==
    routine = "gemm" =>
        /\ \A i \in TaskIds :
              /\ tasks[i].kind \in {"bcast", "gemm"}
              /\ tasks[i].panel \in 0..(A_nt - 1)
        /\ \A p \in 0..(A_nt - 1) :
              /\ Cardinality(TasksOf("bcast", p)) <= 1
              /\ Cardinality(TasksOf("gemm", p)) <= 1
              /\ AllTasksCreated =>
                    /\ Cardinality(TasksOf("bcast", p)) = 1
                    /\ Cardinality(TasksOf("gemm", p)) = 1
        /\ AllTasksCreated => Len(tasks) = 2 * A_nt

\* Two panels and a lookahead of 4, above nt: the master thread is at the
\* taskwait with the four tasks of the two panels.
C33_Witness ==
    /\ routine = "gemm"
    /\ A_nt = 2
    /\ lookahead = 4
    /\ pc = "taskwait"
    /\ Len(tasks) = 4


\* C34: with a lookahead of 0 the pipeline has no overlap: the dependences
\* force the order Broadcast(0), Compute(0), Broadcast(1), Compute(1), ...,
\* Compute(nt-1), and at most one task of the pipeline is active at a time.
C34_NoOverlapWithoutLookahead ==
    (routine = "gemm" /\ lookahead = 0) =>
        /\ NumRunning("bcast") + NumRunning("gemm") <= 1
        /\ \A p \in 0..(A_nt - 1) :
              /\ Started("gemm", p) => Completed("bcast", p)
              /\ (p >= 1 /\ Started("bcast", p)) => Completed("gemm", p - 1)

\* No lookahead and three panels: Broadcast(2) is running and every earlier
\* task has completed.
C34_Witness ==
    /\ routine = "gemm"
    /\ lookahead = 0
    /\ A_nt = 3
    /\ Running("bcast", 2)
    /\ Completed("gemm", 1)
    /\ Len(tasks) = 6


\* The units of a call that fetch the tile t of C for writing or write it: a
\* host task or loop iteration, the batched call of the host thread, the task
\* of a device.
WritersOf(t) ==
    {<<"unit", n>> : n \in {x \in 1..Len(units) : units[x].out = t}}
    \cup {<<"batch", IF target = "Devices" THEN b.loc ELSE -1>> :
             b \in {x \in batchCalls : \E e \in x.entries : e.c = t}}
    \cup {<<"batch", d>> : d \in {x \in DOMAIN queue :
                                    \E kc \in queue[x] : \E e \in kc.entries : e.c = t}}
    \cup {<<"batch", f.loc>> : f \in {x \in fetched :
                                        target = "Devices" /\ x.mat = "C" /\ x.tile = t}}

\* C35: within one syrk call, on every backend, no tile C(i, j) is fetched
\* for writing or written by two different units, each tile is written once
\* at most, and no unit reads a tile that a unit of the call writes: the
\* units read tiles of A only and write tiles of C only.
C35_NoSharedOutputTile ==
    routine = "syrk" =>
        /\ \A t \in CTiles :
              /\ Cardinality(WritersOf(t)) <= 1
              /\ Len(updates[t]) <= 1
        /\ \A f \in fetched : \A g \in fetched :
              (f.mode = "write" /\ g.mode = "read") => <<f.mat, f.tile>> # <<g.mat, g.tile>>
        /\ \A n \in 1..Len(units) : \A m \in 1..Len(units) :
              n # m => units[n].out # units[m].out

\* Two device tasks are between their batched calls at the same time, each
\* with tiles of its own fetched for writing.
C35_Witness ==
    /\ routine = "syrk"
    /\ target = "Devices"
    /\ num_devices = 2
    /\ devpc[0] \in {"gemm10", "fetch_syrk", "syrk0"}
    /\ devpc[1] \in {"gemm10", "fetch_syrk", "syrk0"}
    /\ \E f \in fetched : f.mat = "C" /\ f.loc = 0
    /\ \E f \in fetched : f.mat = "C" /\ f.loc = 1


\* The devices whose task fetches the tile t of B for writing or has it in
\* a batch.
SolvingDevices(t) ==
    {d \in DOMAIN devpc :
        \/ [mat |-> "B", tile |-> t, mode |-> "write", loc |-> d] \in fetched
        \/ \E b \in BatchCallsOn(d) : \E e \in b.entries : e.c = t}

\* C36: in trsmA on Devices, with any number of devices, each tile of B is
\* fetched for writing and solved by one device task at most, and solved once:
\* no tile of B is in the batches of two devices.
C36_OneDevicePerTile ==
    (routine = "trsmA" /\ target = "Devices") =>
        \A t \in BTiles :
            /\ Cardinality(SolvingDevices(t)) <= 1
            /\ Len(updates[t]) <= 1


\* The compute units of a trsmA call that have consumed A(0, 0): one for
\* each solve of a tile of B.
TrsmSolves ==
    Cardinality(UNION {{<<t, n>> : n \in 1..Len(updates[t])} : t \in BTiles})

\* C37: in a trsmA call with the tile release strategy Internal or All, on
\* every backend, the number of tileTick calls on A(0, 0) is the number of
\* compute units that consumed it, one for each tile of B solved; on Devices
\* the release and the ticks of a device task come after its queue->sync().
C37_TrsmTicksMatchUnits ==
    (routine = "trsmA" /\ call_tile_tick) =>
        /\ (spc = "done" /\ result = "ok") => ticks[0] = TrsmSolves
        /\ ticks[0] <= TrsmSolves
        /\ target = "Devices" =>
              \A d \in DOMAIN devpc :
                  <<0, d>> \in released => devpc[d] = "done" /\ queue[d] = {}


\* The units of the call that fail: a kernel of theirs throws.
FailingTiles == {t \in LocalLower : Throws(t)}

\* The call has raised after its join the condition of its backend.
RaisedAtJoin ==
    /\ spc = "done"
    /\ result \in {"exception", "slate_error"}
    /\ raised.line = ThrowLine(target)

\* C38: a syrk backend call raises after the join if and only if one at
\* least of its units has failed: at the join the shared flag err is not zero
\* exactly when a unit has caught a failure, however many units fail and in
\* whatever order they write the flag. No failure of a unit ends the call
\* otherwise.
C38_RaisesIffUnitFailed ==
    (routine = "syrk" /\ Available) =>
        /\ spc = "return" => (err # 0 <=> FailingTiles # {})
        /\ spc = "done" => (RaisedAtJoin <=> FailingTiles # {})
        /\ spc # "aborted"

\* The same on the grids of more than one tile and on the host backends.
C38_FlagOutsideSingleTilePath ==
    (routine = "syrk" /\ Available /\ ~(target = "Devices" /\ C_nt = 1)) =>
        C38_RaisesIffUnitFailed

\* Three units of a HostTask call have failed and the call has raised.
C38_ThreeFailures ==
    /\ routine = "syrk"
    /\ target = "HostTask"
    /\ Cardinality(FailingTiles) = 3
    /\ RaisedAtJoin


\* C39: for every scalar kind, op(A) and op(C) that the dispatcher of syrk
\* accepts, the resolution of the operators in the HostBatch and the Devices
\* backends never takes its failure branch, the throw for A and C with
\* different operators, neither NoTrans, in the complex case.
C39_ResolutionNeverThrows ==
    (routine = "syrk" /\ target \in {"HostBatch", "Devices"} /\ invoked # <<>>) =>
        /\ ResolveOpA # "throw"
        /\ raised.line # 287
        /\ err = 0
        /\ result \notin {"exception", "slate_error"}

\* A complex call with A and C both Trans: Devices has resolved opA to
\* NoTrans, issued its batched gemm and returned.
C39_Witness ==
    /\ routine = "syrk"
    /\ target = "Devices"
    /\ ~is_real
    /\ opC = "Trans"
    /\ opA = "Trans"
    /\ spc = "done"
    /\ result = "ok"
    /\ \E b \in batchCalls : b.kind = "gemm"


\* Two operators are the same, Trans and ConjTrans being one for real scalars.
SameOp(x, y) == x = y \/ (is_real /\ {x, y} \subseteq {"Trans", "ConjTrans"})

\* C40: in the multi-tile Devices backend the operator given to the batched
\* syrk of the diagonal tiles, the variable opA as the resolution and the swap
\* of the off-diagonal part leave it, is the operator of A itself, Trans and
\* ConjTrans being one for real scalars, for every accepted op(A) and op(C):
\* it is the operator the single-tile path gives to blas::syrk.
C40_DiagonalOperatorIsOpA ==
    (routine = "syrk" /\ target = "Devices") =>
        \A b \in batchCalls :
            b.kind = "syrk" =>
                /\ SameOp(b.args.opA, opA)
                /\ SameOp(b.args.opA, SingleSyrkOp)

\* A complex call with C Trans and A NoTrans: the resolution gives Trans, the
\* swap gives NoTrans back, and the batched syrk is called with NoTrans.
C40_Witness ==
    /\ routine = "syrk"
    /\ target = "Devices"
    /\ ~is_real
    /\ opC = "Trans"
    /\ opA = "NoTrans"
    /\ ResolveOpA = "Trans"
    /\ \E b \in batchCalls : b.kind = "syrk" /\ b.args.opA = "NoTrans"

====
